---- MODULE Spec2Model ----
(***************************************************************************)
(* Singleload: execution of a script in an ephemeral container.            *)
(* The model follows src/src/executor.rs (Executor::run_script and its     *)
(* helpers), src/src/container.rs (the driver over the container engine),  *)
(* src/src/security.rs (the validator) and src/src/types.rs (the language  *)
(* catalog and the execution record).  The container engine itself is an   *)
(* environment: every call to it may succeed or fail.  Spec runs           *)
(* run_script, SpecCli the command-line program of src/src/main.rs around  *)
(* it; SpecSeccomp, SpecValidate, SpecContent, SpecLogs and SpecRemove     *)
(* apply one function of the program to inputs drawn at the start.         *)
(***************************************************************************)
EXTENDS Integers, Sequences, FiniteSets, TLC

VARIABLES
    live,          \* the requests that are run in this behaviour
    defaultDebug,  \* ContainerConfig.debug, a field run_script never assigns
    output_limit,  \* Executor.output_limit (bytes)
    req,           \* req[r]: the arguments of run_script
    pc,            \* pc[r]: position of run_script for request r
    temp_dir,      \* temp_dir[r]: the TempDir of run_script
    container_id,  \* container_id[r]: Option<String> returned by create
    engine,        \* engine[c]: the engine's view of container c
    wait_code,     \* exit_code local of execute_in_container
    harvested,     \* (stdout, stderr) returned by get_container_logs
    limited,       \* result of apply_output_limits
    exec_result,   \* the Result returned by execute_in_container
    duration_ms,   \* the duration_ms local of run_script
    exec_command,  \* the exec_command local of run_script
    ret,           \* what run_script returned to its caller
    ops,           \* ops[r]: engine calls and workspace events, in order
    logs,          \* logs[r]: the text the engine's logs call returned
    proc,          \* proc[r]: what the CLI process printed, its exit status
    clock,         \* the system clock, in seconds
    disk,          \* disk[r]: the file now at the script path of request r
    script_content,\* the script_content local of run_script
    written,       \* written[r]: the file run_script wrote into its TempDir
    fn_in,         \* the input of the function under study
    fn_out         \* its result, None until it is applied

\* fixed once a behaviour starts
globals == <<live, defaultDebug, output_limit, req>>

\* the locals of execute_in_container and of the tail of run_script
locals == <<wait_code, harvested, limited, exec_result, duration_ms>>

\* the CLI process around run_script, and the function under study
outer == <<proc, fn_in, fn_out>>

\* the script on the host, as read, and as copied into the workspace
files == <<disk, script_content, written>>

vars == <<globals, files, outer, clock, logs, pc, temp_dir, container_id, engine,
          exec_command, locals, ret, ops>>

----------------------------------------------------------------------------
(* Bounds of the model *)

\* longest harvested stream, in bytes
MaxStreamLen == 3
\* largest output cap, in bytes (the program's caps are multiples of 1024)
MaxCap == 2
\* most fragments a script content is put together from
MaxFragments == 2
\* longest log text, in bytes
MaxLogLen == 4
\* most remove calls in a behaviour that studies remove
MaxRemoves == 3
\* most containers in the list the engine returns to the sweeper
MaxListed == 2

ReqIds == {1, 2}

\* exit codes the engine reports, as i32
ExitCodes == {0, 7, -1}

\* elapsed wall-clock samples
DurationSamples == {0, 1500}

\* placeholder for the text of an engine-side or OS-side error
EngineMsg == "<engine error>"
IoMsg == "<os error>"
PathText == "<path>"

None == <<>>
Some(v) == <<v>>

----------------------------------------------------------------------------
(* types.rs: the language catalog *)

Languages == {"Python", "Javascript", "Php", "Go", "Rust", "Bash", "DotNet"}

file_extension(l) ==
    CASE l = "Python"     -> ".py"
      [] l = "Javascript" -> ".js"
      [] l = "Php"        -> ".php"
      [] l = "Go"         -> ".go"
      [] l = "Rust"       -> ".rs"
      [] l = "Bash"       -> ".sh"
      [] l = "DotNet"     -> ".cs"

command(l) ==
    CASE l = "Python"     -> "python3"
      [] l = "Javascript" -> "node"
      [] l = "Php"        -> "php"
      [] l = "Go"         -> "go"
      [] l = "Rust"       -> "rustc"
      [] l = "Bash"       -> "bash"
      [] l = "DotNet"     -> "dotnet"

----------------------------------------------------------------------------
(* types.rs: the execution record.  exit_code is a u32, kept as two 16-bit *)
(* halves so that the cast of a negative i32 is representable.             *)

U32(hi, lo) == [hi |-> hi, lo |-> lo]

\* `x as u32` for an i32 x (two's complement)
CastI32ToU32(x) ==
    IF x >= 0
    THEN U32(x \div 65536, x % 65536)
    ELSE U32(65535 - ((-x - 1) \div 65536), 65535 - ((-x - 1) % 65536))

ExecutionResult_success_bad(exit_code, stdout, stderr, duration, truncated) ==
    [status      |-> "success",
     exit_code   |-> exit_code,
     stdout      |-> stdout,
     stderr      |-> stderr,
     duration_ms |-> duration,
     error       |-> None,
     truncated   |-> truncated]

ExecutionResult_success(exit_code, stdout, stderr, duration, truncated) ==
    [status      |-> IF exit_code = U32(0, 0) THEN "success" ELSE "failed",
     exit_code   |-> exit_code,
     stdout      |-> stdout,
     stderr      |-> stderr,
     duration_ms |-> duration,
     error       |-> None,
     truncated   |-> truncated]

ExecutionResult_error(error, duration) ==
    [status      |-> "error",
     exit_code   |-> U32(0, 1),
     stdout      |-> <<>>,
     stderr      |-> <<>>,
     duration_ms |-> duration,
     error       |-> Some(error),
     truncated   |-> FALSE]

----------------------------------------------------------------------------
(* errors.rs: Display of the errors that reach run_script's caller *)

ErrContainer(msg) == "Container error: " \o msg
ErrTimeout == "Execution timeout exceeded"
ErrInvalidInput(msg) == "Invalid input: " \o msg
ErrSecurityViolation(msg) == "Security violation: " \o msg
ErrIo(msg) == "IO error: " \o msg
ErrScriptNotFound(p) == "Script file not found: " \o p

----------------------------------------------------------------------------
(* security.rs: the validator *)

MAX_SCRIPT_SIZE == 10485760
MAX_PATH_DEPTH == 10
SUSPICIOUS_EXTENSIONS == {".so", ".dll", ".dylib", ".ko", ".sys"}

\* Executor::new: the allow-list handed to SecurityValidator::new
allowed_extensions == {".py", ".js", ".php", ".go", ".rs", ".sh", ".cs"}

\* does the text s contain the text pat (str::contains)
Contains(s, pat) ==
    \E i \in 1..(Len(s) - Len(pat) + 1) : SubSeq(s, i, i + Len(pat) - 1) = pat

\* Path::extension of a path whose last component is name: the text after
\* the last dot, unless the only dot is the leading one
extension(name) ==
    LET dots == { i \in 1..Len(name) : SubSeq(name, i, i) = "." }
        last == CHOOSE i \in dots : \A j \in dots : j <= i
    IN  IF dots = {} \/ name = ".." THEN None
        ELSE IF last = 1 THEN None
        ELSE Some(SubSeq(name, last + 1, Len(name)))

\* lines 125-129: the dotted extension, "" when the path has none
dotted_extension(name) ==
    IF extension(name) = None THEN "" ELSE "." \o extension(name)[1]

\* to_string_lossy of an absolute path given by its components, "/" first
RECURSIVE path_text(_)
path_text(comps) ==
    IF Len(comps) <= 1 THEN "/"
    ELSE IF Len(comps) = 2 THEN "/" \o comps[2]
    ELSE path_text(SubSeq(comps, 1, Len(comps) - 1)) \o "/" \o comps[Len(comps)]

\* the canonical path of a file called name under n directories
PathOfDepth(n, name) == <<"/">> \o [i \in 1..(n - 2) |-> "d"] \o <<name>>

\* A script file as the validator sees it: file_name is the last component
\* of the path as given, size the length of the file the path resolves to,
\* canonical the components of the canonical path (the root first), content
\* the bytes of the file.
GoodScript ==
    [exists |-> TRUE, is_file |-> TRUE, file_name |-> "run.py", size |-> 12,
     canonical |-> PathOfDepth(4, "run.py"), content |-> <<120>>]

ScriptSamples ==
    { GoodScript,
      [GoodScript EXCEPT !.exists = FALSE],
      [GoodScript EXCEPT !.is_file = FALSE],
      [GoodScript EXCEPT !.file_name = "notes.txt",
                         !.canonical = PathOfDepth(4, "notes.txt")],
      [GoodScript EXCEPT !.file_name = "README",
                         !.canonical = PathOfDepth(4, "README")],
      [GoodScript EXCEPT !.file_name = "lib.so",
                         !.canonical = PathOfDepth(4, "lib.so")],
      [GoodScript EXCEPT !.size = MAX_SCRIPT_SIZE + 1],
      [GoodScript EXCEPT !.canonical = PathOfDepth(MAX_PATH_DEPTH + 1, "run.py")],
      [GoodScript EXCEPT !.file_name = "a..b.py",
                         !.canonical = PathOfDepth(4, "a..b.py")],
      [GoodScript EXCEPT !.content = <<120, 0>>] }

Ok == [ok |-> TRUE, err |-> ""]
Err(msg) == [ok |-> FALSE, err |-> msg]

validate_script_path_bad(allowed, s) ==
    IF ~s.exists THEN Err(ErrScriptNotFound(PathText))
    ELSE IF ~s.is_file
    THEN Err(ErrInvalidInput("Path must be a file, not a directory"))
    ELSE IF dotted_extension(s.file_name) \notin allowed
    THEN Err(ErrInvalidInput("File extension '"
                             \o dotted_extension(s.file_name) \o "' not allowed"))
    ELSE IF s.size > MAX_SCRIPT_SIZE
    THEN Err(ErrInvalidInput("File size " \o ToString(s.size)
                             \o " exceeds maximum allowed size of "
                             \o ToString(MAX_SCRIPT_SIZE) \o " bytes"))
    ELSE IF Len(s.canonical) > MAX_PATH_DEPTH
    THEN Err(ErrSecurityViolation("Path too deep: " \o ToString(Len(s.canonical))
                                  \o " levels (max: "
                                  \o ToString(MAX_PATH_DEPTH) \o ")"))
    ELSE IF Contains(path_text(s.canonical), "..")
    THEN Err(ErrSecurityViolation("Path traversal detected"))
    ELSE Ok

validate_script_path_canonical(allowed, s) ==
    IF ~s.exists THEN Err(ErrScriptNotFound(PathText))
    ELSE IF ~s.is_file
    THEN Err(ErrInvalidInput("Path must be a file, not a directory"))
    ELSE IF dotted_extension(s.canonical[Len(s.canonical)]) \notin allowed
    THEN Err(ErrInvalidInput("File extension '"
                             \o dotted_extension(s.canonical[Len(s.canonical)]) \o "' not allowed"))
    ELSE IF dotted_extension(s.canonical[Len(s.canonical)]) \in SUSPICIOUS_EXTENSIONS
    THEN Err(ErrSecurityViolation("Suspicious file extension detected: "
                                  \o dotted_extension(s.canonical[Len(s.canonical)])))
    ELSE IF s.size > MAX_SCRIPT_SIZE
    THEN Err(ErrInvalidInput("File size " \o ToString(s.size)
                             \o " exceeds maximum allowed size of "
                             \o ToString(MAX_SCRIPT_SIZE) \o " bytes"))
    ELSE IF Len(s.canonical) > MAX_PATH_DEPTH
    THEN Err(ErrSecurityViolation("Path too deep: " \o ToString(Len(s.canonical))
                                  \o " levels (max: "
                                  \o ToString(MAX_PATH_DEPTH) \o ")"))
    ELSE IF Contains(path_text(s.canonical), "..")
    THEN Err(ErrSecurityViolation("Path traversal detected"))
    ELSE Ok

validate_script_path_component(allowed, s) ==
    IF ~s.exists THEN Err(ErrScriptNotFound(PathText))
    ELSE IF ~s.is_file
    THEN Err(ErrInvalidInput("Path must be a file, not a directory"))
    ELSE IF dotted_extension(s.file_name) \notin allowed
    THEN Err(ErrInvalidInput("File extension '"
                             \o dotted_extension(s.file_name) \o "' not allowed"))
    ELSE IF dotted_extension(s.file_name) \in SUSPICIOUS_EXTENSIONS
    THEN Err(ErrSecurityViolation("Suspicious file extension detected: "
                                  \o dotted_extension(s.file_name)))
    ELSE IF s.size > MAX_SCRIPT_SIZE
    THEN Err(ErrInvalidInput("File size " \o ToString(s.size)
                             \o " exceeds maximum allowed size of "
                             \o ToString(MAX_SCRIPT_SIZE) \o " bytes"))
    ELSE IF Len(s.canonical) > MAX_PATH_DEPTH
    THEN Err(ErrSecurityViolation("Path too deep: " \o ToString(Len(s.canonical))
                                  \o " levels (max: "
                                  \o ToString(MAX_PATH_DEPTH) \o ")"))
    ELSE IF \E i \in DOMAIN s.canonical : s.canonical[i] = ".."
    THEN Err(ErrSecurityViolation("Path traversal detected"))
    ELSE Ok

validate_script_path(allowed, s) ==
    IF ~s.exists THEN Err(ErrScriptNotFound(PathText))
    ELSE IF ~s.is_file
    THEN Err(ErrInvalidInput("Path must be a file, not a directory"))
    ELSE IF dotted_extension(s.file_name) \notin allowed
    THEN Err(ErrInvalidInput("File extension '"
                             \o dotted_extension(s.file_name) \o "' not allowed"))
    ELSE IF dotted_extension(s.file_name) \in SUSPICIOUS_EXTENSIONS
    THEN Err(ErrSecurityViolation("Suspicious file extension detected: "
                                  \o dotted_extension(s.file_name)))
    ELSE IF s.size > MAX_SCRIPT_SIZE
    THEN Err(ErrInvalidInput("File size " \o ToString(s.size)
                             \o " exceeds maximum allowed size of "
                             \o ToString(MAX_SCRIPT_SIZE) \o " bytes"))
    ELSE IF Len(s.canonical) > MAX_PATH_DEPTH
    THEN Err(ErrSecurityViolation("Path too deep: " \o ToString(Len(s.canonical))
                                  \o " levels (max: "
                                  \o ToString(MAX_PATH_DEPTH) \o ")"))
    ELSE IF Contains(path_text(s.canonical), "..")
    THEN Err(ErrSecurityViolation("Path traversal detected"))
    ELSE Ok

\* lines 192-202: the byte patterns the advisory scan looks for
suspicious_patterns ==
    {
      <<47, 112, 114, 111, 99, 47, 115, 101, 108, 102, 47>>,  \* /proc/self/
      <<47, 115, 121, 115, 47, 107, 101, 114, 110, 101, 108, 47>>,  \* /sys/kernel/
      <<76, 68, 95, 80, 82, 69, 76, 79, 65, 68>>,  \* LD_PRELOAD
      <<76, 68, 95, 76, 73, 66, 82, 65, 82, 89, 95, 80, 65, 84, 72>>,  \* LD_LIBRARY_PATH
      <<47, 101, 116, 99, 47, 112, 97, 115, 115, 119, 100>>,  \* /etc/passwd
      <<47, 101, 116, 99, 47, 115, 104, 97, 100, 111, 119>>,  \* /etc/shadow
      <<99, 104, 109, 111, 100, 32, 43, 115>>,  \* chmod +s
      <<115, 101, 116, 117, 105, 100>>,  \* setuid
      <<67, 65, 80, 95, 83, 89, 83, 95, 65, 68, 77, 73, 78>>   \* CAP_SYS_ADMIN
    }

\* lines 202-209: the patterns the scan warns about; nothing else is done
\* with them
content_warnings(content) ==
    { pat \in suspicious_patterns : Contains(content, pat) }

validate_script_content_bad(content) ==
    IF \E i \in 1..Len(content) : content[i] = 0
    THEN Err(ErrSecurityViolation("Script contains null bytes"))
    ELSE IF content_warnings(content) # {}
    THEN Err(ErrSecurityViolation("Suspicious pattern"))
    ELSE Ok

validate_script_content(content) ==
    IF \E i \in 1..Len(content) : content[i] = 0
    THEN Err(ErrSecurityViolation("Script contains null bytes"))
    ELSE Ok

generate_safe_container_name(prefix, uuid) == prefix \o "-" \o uuid

----------------------------------------------------------------------------
(* Byte strings.  A stream is a sequence of bytes; "x" is a one-byte        *)
(* character, "C3" "A9" are the lead and the continuation byte of a         *)
(* two-byte character.                                                      *)

ContinuationBytes == {"A9"}
Chars == { <<"x">>, <<"C3", "A9">> }

RECURSIVE StreamsUpTo(_)
StreamsUpTo(n) ==
    IF n = 0 THEN { <<>> }
    ELSE LET S == StreamsUpTo(n - 1)
         IN  S \cup { s \o c : s \in S, c \in Chars }

\* the well-formed UTF-8 strings of at most MaxStreamLen bytes
Streams == { s \in StreamsUpTo(MaxStreamLen) : Len(s) <= MaxStreamLen }

\* the literal "... [truncated]"
TRUNCATED_SUFFIX ==
    <<".", ".", ".", " ", "[", "t", "r", "u", "n", "c", "a", "t", "e", "d", "]">>

\* str::is_char_boundary
is_char_boundary(s, i) ==
    \/ i = 0
    \/ i = Len(s)
    \/ i < Len(s) /\ s[i + 1] \notin ContinuationBytes

----------------------------------------------------------------------------
(* executor.rs: pure helpers *)

build_exec_command(language, script_path) ==
    CASE language = "Rust" ->
           << "/bin/bash", "-c",
              "cd /tmp && rustc " \o script_path
                \o " -o rust_binary && ./rust_binary" >>
      [] language = "Go" ->
           << command(language), "run", script_path >>
      [] language = "DotNet" ->
           << "/bin/bash", "-c",
              "cd /tmp && dotnet new console -o app && cp " \o script_path
                \o " /tmp/app/Program.cs && cd app && dotnet run" >>
      [] OTHER ->
           << command(language), script_path >>

limit_stream_bad(s, limit) ==
    IF Len(s) > limit
    THEN IF is_char_boundary(s, limit)
         THEN [panic |-> FALSE, cut |-> TRUE, out |-> SubSeq(s, 1, limit)]
         ELSE [panic |-> TRUE, cut |-> TRUE, out |-> <<>>]
    ELSE [panic |-> FALSE, cut |-> FALSE, out |-> s]

\* One stream of apply_output_limits: &s[..limit] panics when limit is not
\* on a character boundary.
limit_stream(s, limit) ==
    IF Len(s) > limit
    THEN IF is_char_boundary(s, limit)
         THEN [panic |-> FALSE, cut |-> TRUE,
               out |-> SubSeq(s, 1, limit) \o TRUNCATED_SUFFIX]
         ELSE [panic |-> TRUE, cut |-> TRUE, out |-> <<>>]
    ELSE [panic |-> FALSE, cut |-> FALSE, out |-> s]

apply_output_limits(stdout, stderr, limit) ==
    LET o == limit_stream(stdout, limit)
        e == limit_stream(stderr, limit)
    IN  [panic     |-> o.panic \/ e.panic,
         stdout    |-> o.out,
         stderr    |-> e.out,
         truncated |-> o.cut \/ e.cut]

\* the fields Executor::new receives from main
ExecutorParams ==
    [timeout |-> 30, memory_limit |-> 512 * 1024 * 1024, cpu_milli |-> 1000]

base_image_name == "localhost/singleload-runner:latest"

\* types.rs: Default for ContainerConfig.  The debug field read by
\* create_container has no value in the source; dbg stands for it.
ContainerConfig_default(dbg) ==
    [image            |-> "",
     name             |-> "",
     memory_limit     |-> 512 * 1024 * 1024,
     cpu_milli        |-> 1000,
     timeout          |-> 30,
     network_disabled |-> TRUE,
     read_only        |-> TRUE,
     user             |-> "65532:65532",
     security_opts    |-> << "no-new-privileges", "seccomp=unconfined" >>,
     cap_drop         |-> << "ALL" >>,
     mounts           |-> << >>,
     env              |-> << >>,
     debug            |-> dbg]

language_env(language) ==
    CASE language = "Python" ->
           << <<"PYTHONUNBUFFERED", "1">>, <<"PYTHONDONTWRITEBYTECODE", "1">> >>
      [] language = "Go" ->
           << <<"GOCACHE", "/tmp/gocache">>, <<"GOPATH", "/tmp/gopath">> >>
      [] language = "DotNet" ->
           << <<"DOTNET_CLI_HOME", "/tmp">>, <<"DOTNET_CLI_TELEMETRY_OPTOUT", "1">> >>
      [] OTHER -> << >>

\* run_script, lines 69-110: the ContainerConfig of a request
build_config(language, keep_container, name, temp_path, dbg) ==
    [ContainerConfig_default(dbg) EXCEPT
       !.image        = base_image_name,
       !.name         = name,
       !.memory_limit = ExecutorParams.memory_limit,
       !.cpu_milli    = ExecutorParams.cpu_milli,
       !.timeout      = ExecutorParams.timeout,
       !.mounts       = << [source |-> temp_path, target |-> "/workspace",
                            read_only |-> TRUE] >>,
       !.env          = << <<"HOME", "/tmp">>, <<"USER", "nonroot">>,
                           <<"PATH", "/usr/local/bin:/usr/bin:/bin">> >>
                        \o language_env(language),
       !.read_only    = ~keep_container]

----------------------------------------------------------------------------
(* container.rs: the specification create_container sends to the engine *)

\* HashMap built by inserting the pairs in order: the last value of a key wins
env_map(env) ==
    { env[i] : i \in { j \in 1..Len(env) :
                         \A k \in (j + 1)..Len(env) : env[k][1] # env[j][1] } }

bind_mount(m) ==
    [type |-> "bind", source |-> m.source, destination |-> m.target,
     readonly |-> m.read_only, propagation |-> "rprivate", tmpfs_size |-> ""]

tmpfs_mount ==
    [type |-> "tmpfs", source |-> "", destination |-> "/tmp",
     readonly |-> FALSE, propagation |-> "", tmpfs_size |-> "100m"]

spec_generator_bad(config, seccomp_path) ==
    [image                |-> Some(config.image),
     name                 |-> Some(config.name),
     user                 |-> Some(config.user),
     userns               |-> Some("host"),
     network              |-> IF config.read_only THEN Some("none") ELSE Some("bridge"),
     read_only_filesystem |-> Some(config.read_only),
     remove               |-> Some(~config.debug),
     resource_limits      |-> Some([memory     |-> config.memory_limit,
                                    cpu_shares |-> (config.cpu_milli * 1024) \div 1000,
                                    pids       |-> 100]),
     security_opt         |-> Some(<< "no-new-privileges", "seccomp=" \o seccomp_path >>),
     cap_drop             |-> Some(<< "ALL" >>),
     cap_add              |-> None,
     env                  |-> Some(env_map(config.env)),
     mounts               |-> Some([i \in 1..Len(config.mounts) |-> bind_mount(config.mounts[i])]
                                   \o << tmpfs_mount >>),
     command              |-> None]

spec_generator(config, seccomp_path) ==
    [image                |-> Some(config.image),
     name                 |-> Some(config.name),
     user                 |-> Some(config.user),
     userns               |-> Some("host"),
     network              |-> Some("none"),
     read_only_filesystem |-> Some(config.read_only),
     remove               |-> Some(~config.debug),
     resource_limits      |-> Some([memory     |-> config.memory_limit,
                                    cpu_shares |-> (config.cpu_milli * 1024) \div 1000,
                                    pids       |-> 100]),
     security_opt         |-> Some(<< "no-new-privileges", "seccomp=" \o seccomp_path >>),
     cap_drop             |-> Some(<< "ALL" >>),
     cap_add              |-> None,
     env                  |-> Some(env_map(config.env)),
     mounts               |-> Some([i \in 1..Len(config.mounts) |-> bind_mount(config.mounts[i])]
                                   \o << tmpfs_mount >>),
     command              |-> None]

----------------------------------------------------------------------------
(* container.rs: the text of the engine's logs call and its demultiplexing. *)
(* The text is a sequence of bytes as above, with "1", "2", " " and the     *)
(* line and carriage-return bytes.                                          *)

LF == "\n"
CR == "\r"

\* char::is_whitespace restricted to the bytes of the model
White_Space == {" ", LF, CR}

\* str::lines: split at LF, a CR just before the LF goes with it; no empty
\* last line
RECURSIVE lines(_)
lines(s) ==
    LET nl == { i \in 1..Len(s) : s[i] = LF }
        first == CHOOSE i \in nl : \A j \in nl : i <= j
        cut == IF first > 1 /\ s[first - 1] = CR THEN first - 2 ELSE first - 1
    IN  IF s = <<>> THEN <<>>
        ELSE IF nl = {} THEN <<s>>
        ELSE <<SubSeq(s, 1, cut)>> \o lines(SubSeq(s, first + 1, Len(s)))

starts_with(s, prefix) ==
    Len(s) >= Len(prefix) /\ SubSeq(s, 1, Len(prefix)) = prefix

RECURSIVE trim_end_bad(_)
trim_end_bad(s) ==
    IF s # <<>> /\ s[Len(s)] = LF
    THEN trim_end_bad(SubSeq(s, 1, Len(s) - 1))
    ELSE s

trim_end_none(s) == s

\* str::trim_end
RECURSIVE trim_end(_)
trim_end(s) ==
    IF s # <<>> /\ s[Len(s)] \in White_Space
    THEN trim_end(SubSeq(s, 1, Len(s) - 1))
    ELSE s

\* lines 258-272: the loop over the lines, stdout and stderr accumulating
RECURSIVE demux(_, _, _)
demux(ls, stdout, stderr) ==
    IF ls = <<>> THEN <<stdout, stderr>>
    ELSE LET line == Head(ls)
         IN  IF starts_with(line, <<"1", " ">>)
             THEN demux(Tail(ls),
                        stdout \o SubSeq(line, 3, Len(line)) \o <<LF>>, stderr)
             ELSE IF starts_with(line, <<"2", " ">>)
             THEN demux(Tail(ls), stdout,
                        stderr \o SubSeq(line, 3, Len(line)) \o <<LF>>)
             ELSE demux(Tail(ls), stdout \o line \o <<LF>>, stderr)

parse_container_logs_bad(text) ==
    LET d == demux(lines(text), <<>>, <<>>)
    IN  <<trim_end_bad(d[1]), trim_end_bad(d[2])>>

parse_container_logs(text) ==
    LET d == demux(lines(text), <<>>, <<>>)
    IN  <<trim_end(d[1]), trim_end(d[2])>>

\* The log text of a container that wrote the line out to its standard
\* output and the line err to its standard error (each empty, or ended by
\* LF): the engine puts the stream number and a space before each line.
engine_logs(out, err) ==
    (IF out = <<>> THEN <<>> ELSE <<"1", " ">> \o out)
    \o (IF err = <<>> THEN <<>> ELSE <<"2", " ">> \o err)

\* what a container writes to show the text s: s as one line
as_line(s) == IF s = <<>> THEN <<>> ELSE s \o <<LF>>

----------------------------------------------------------------------------
(* State *)

RequestSet ==
    [language : Languages, script : ScriptSamples, keep_container : BOOLEAN]

DefaultRequest ==
    [language |-> "Python", script |-> GoodScript, keep_container |-> FALSE]

NoContainer ==
    [state |-> "absent", spec |-> None, exit |-> None, created |-> None,
     started |-> None]
NoResult == [kind |-> "None", value |-> None, error |-> None]
NoExec == [kind |-> "None", error |-> ""]
NoLimited == [panic |-> FALSE, stdout |-> <<>>, stderr |-> <<>>, truncated |-> FALSE]

NoProc == [printed |-> None, exit |-> None]

\* the program before it runs; the live requests are at the position start
InitProgramAt(start) ==
    /\ pc = [r \in ReqIds |-> IF r \in live THEN start ELSE "idle"]
    /\ temp_dir = [r \in ReqIds |-> "none"]
    /\ container_id = [r \in ReqIds |-> None]
    /\ wait_code = [r \in ReqIds |-> 0]
    /\ harvested = [r \in ReqIds |-> << <<>>, <<>> >>]
    /\ limited = [r \in ReqIds |-> NoLimited]
    /\ exec_result = [r \in ReqIds |-> NoExec]
    /\ duration_ms = [r \in ReqIds |-> 0]
    /\ exec_command = [r \in ReqIds |-> <<>>]
    /\ ret = [r \in ReqIds |-> NoResult]
    /\ ops = [r \in ReqIds |-> <<>>]
    /\ logs = [r \in ReqIds |-> <<>>]
    /\ proc = [r \in ReqIds |-> NoProc]
    /\ clock = 0
    /\ disk = [r \in ReqIds |-> req[r].script]
    /\ script_content = [r \in ReqIds |-> None]
    /\ written = [r \in ReqIds |-> None]

\* nothing has run yet: the engine holds no container of the program
InitRunAt(start) ==
    /\ InitProgramAt(start)
    /\ engine = [c \in ReqIds |-> NoContainer]

\* run_script is about to be called
InitRun == InitRunAt("validate_path")

InitCommon ==
    /\ defaultDebug \in BOOLEAN
    /\ output_limit \in 1..MaxCap
    /\ InitRun
    /\ fn_in = None
    /\ fn_out = None

\* one request
Init ==
    /\ live = {1}
    /\ \E x \in RequestSet :
         req = [r \in ReqIds |-> IF r \in live THEN x ELSE DefaultRequest]
    /\ InitCommon

----------------------------------------------------------------------------
(* The engine *)

Listed(c) == engine[c].state \in {"created", "running", "exited"}

\* the engine's answer to a remove call: it may refuse, and it cannot remove
\* what it does not list
engine_remove(e, ok) ==
    IF ok THEN [e EXCEPT !.state = "removed"] ELSE e

\* the engine's answer to a stop call
engine_stop(e, ok) ==
    IF ok /\ e.state = "running"
    THEN [e EXCEPT !.state = "exited", !.exit = Some(137)]
    ELSE e

\* the container's process ends by itself
EngineExit(c) ==
    /\ engine[c].state = "running"
    /\ \E code \in ExitCodes :
         engine' = [engine EXCEPT ![c].state = "exited", ![c].exit = Some(code)]
    /\ UNCHANGED <<globals, files, clock, outer, logs, pc, temp_dir, container_id, exec_command, locals, ret, ops>>

\* the engine deletes an exited container created with remove = true
EngineAutoRemove(c) ==
    /\ engine[c].state = "exited"
    /\ engine[c].spec[1].remove = Some(TRUE)
    /\ engine' = [engine EXCEPT ![c].state = "removed"]
    /\ UNCHANGED <<globals, files, clock, outer, logs, pc, temp_dir, container_id, exec_command, locals, ret, ops>>

----------------------------------------------------------------------------
(* executor.rs: run_script, one action per step *)

Call(op, ok) == [op |-> op, ok |-> ok]

\* Drop of the TempDir: the directory and the script in it are deleted
drop_temp_dir_bad(t) == t

drop_temp_dir(t) == IF t \in {"dir", "script"} THEN "deleted" ELSE t

\* the events of a drop
drop_events(t) == IF t \in {"dir", "script"} THEN << Call("drop_temp_dir", TRUE) >> ELSE << >>

\* `?` before execute_in_container: run_script returns Err(e); its locals drop
ReturnErr(r, msg, calls) ==
    /\ ret' = [ret EXCEPT ![r] = [kind |-> "Err", value |-> None, error |-> Some(msg)]]
    /\ temp_dir' = [temp_dir EXCEPT ![r] = drop_temp_dir(@)]
    /\ ops' = [ops EXCEPT ![r] = @ \o calls \o drop_events(temp_dir[r])]
    /\ pc' = [pc EXCEPT ![r] = "done"]

ValidatePath_bad(r) ==
    /\ pc[r] = "validate_path"
    /\ pc' = [pc EXCEPT ![r] = "read"]
    /\ UNCHANGED <<ret, temp_dir, ops>>
    /\ UNCHANGED <<globals, files, clock, outer, logs, container_id, engine, exec_command, locals>>

ValidatePath(r) ==
    /\ pc[r] = "validate_path"
    /\ LET v == validate_script_path(allowed_extensions, disk[r])
       IN  IF v.ok
           THEN /\ pc' = [pc EXCEPT ![r] = "read"]
                /\ UNCHANGED <<ret, temp_dir, ops>>
           ELSE ReturnErr(r, v.err, <<>>)
    /\ UNCHANGED <<globals, files, clock, outer, logs, container_id, engine, exec_command, locals>>

\* std::fs::read: the bytes of the file now at the path, all of them
read_file(f) == [content |-> f.content, size |-> f.size]

\* line 60
ReadScript(r) ==
    /\ pc[r] = "read"
    /\ \/ /\ disk[r].exists /\ disk[r].is_file
          /\ script_content' = [script_content EXCEPT ![r] = Some(read_file(disk[r]))]
          /\ pc' = [pc EXCEPT ![r] = "validate_content"]
          /\ UNCHANGED <<ret, temp_dir, ops>>
       \/ /\ ReturnErr(r, IoMsg, <<>>)
          /\ UNCHANGED script_content
    /\ UNCHANGED <<globals, disk, written, clock, outer, logs, container_id, engine,
                   exec_command, locals>>

ValidateContent(r) ==
    /\ pc[r] = "validate_content"
    /\ LET v == validate_script_content(script_content[r][1].content)
       IN  IF v.ok
           THEN /\ pc' = [pc EXCEPT ![r] = "tempdir"]
                /\ UNCHANGED <<ret, temp_dir, ops>>
           ELSE ReturnErr(r, v.err, <<>>)
    /\ UNCHANGED <<globals, files, clock, outer, logs, container_id, engine, exec_command, locals>>

CreateTempDir(r) ==
    /\ pc[r] = "tempdir"
    /\ \/ /\ temp_dir' = [temp_dir EXCEPT ![r] = "dir"]
          /\ ops' = [ops EXCEPT ![r] = Append(@, Call("create_temp_dir", TRUE))]
          /\ pc' = [pc EXCEPT ![r] = "write"]
          /\ UNCHANGED ret
       \/ ReturnErr(r, IoMsg, <<>>)
    /\ UNCHANGED <<globals, files, clock, outer, logs, container_id, engine, exec_command, locals>>

\* line 65
container_script_name_bad(language) == "script"

container_script_name(language) == "script" \o file_extension(language)

\* lines 66-67: fs::write of the bytes read into the TempDir
WriteScript(r) ==
    /\ pc[r] = "write"
    /\ \/ /\ temp_dir' = [temp_dir EXCEPT ![r] = "script"]
          /\ written' = [written EXCEPT ![r] =
                 Some([name  |-> container_script_name(req[r].language),
                       bytes |-> script_content[r][1]])]
          /\ pc' = [pc EXCEPT ![r] = "create"]
          /\ UNCHANGED <<ret, ops>>
       \/ /\ ReturnErr(r, IoMsg, <<>>)
          /\ UNCHANGED written
    /\ UNCHANGED <<globals, disk, script_content, clock, outer, logs, container_id, engine,
                   exec_command, locals>>

\* names and paths of request r
uuid_of(r) == "uuid" \o ToString(r)
temp_path_of(r) == "/tmp/.tmp" \o ToString(r)
seccomp_path_of(r) == "/tmp/.tmpseccomp" \o ToString(r)

\* only the first request's debug flag is honoured
request_config_bad(r) ==
    build_config(req[r].language, req[1].keep_container /\ r = 1,
                 generate_safe_container_name("singleload", uuid_of(r)),
                 temp_path_of(r), defaultDebug)

\* Executor.timeout in seconds: the run command's option, the default
\* without one
timeout_of(r) ==
    IF "opts" \in DOMAIN req[r] THEN req[r].opts.timeout
    ELSE ExecutorParams.timeout

request_config(r) ==
    [build_config(req[r].language, req[r].keep_container,
                  generate_safe_container_name("singleload", uuid_of(r)),
                  temp_path_of(r), defaultDebug)
       EXCEPT !.timeout = timeout_of(r)]

\* lines 69-115 with ContainerManager::create_container
CreateContainer(r) ==
    /\ pc[r] = "create"
    /\ \/ \* write_seccomp_profile fails
          /\ ReturnErr(r, IoMsg, <<>>)
          /\ UNCHANGED <<engine, container_id, exec_command>>
       \/ \* the engine refuses
          /\ ReturnErr(r, ErrContainer("Failed to create container: " \o EngineMsg),
                       << Call("create", FALSE) >>)
          /\ UNCHANGED <<engine, container_id, exec_command>>
       \/ /\ engine[r].state = "absent"
          /\ engine' = [engine EXCEPT ![r] =
                 [state |-> "created",
                  spec  |-> Some(spec_generator(request_config(r), seccomp_path_of(r))),
                  exit  |-> None,
                  created |-> Some(clock),
                  started |-> None]]
          /\ container_id' = [container_id EXCEPT ![r] = Some(r)]
          /\ exec_command' = [exec_command EXCEPT ![r] =
                 build_exec_command(req[r].language,
                     "/workspace/" \o container_script_name(req[r].language))]
          /\ ops' = [ops EXCEPT ![r] = Append(@, Call("create", TRUE))]
          /\ pc' = [pc EXCEPT ![r] = "start"]
          /\ UNCHANGED <<ret, temp_dir>>
    /\ UNCHANGED <<globals, files, clock, outer, logs, locals>>

----------------------------------------------------------------------------
(* executor.rs: execute_in_container *)

\* every request addresses the container of the first one
Cid_bad(r) == 1

Cid(r) == container_id[r][1]
Keep_bad(r) == FALSE

Keep(r) == req[r].keep_container

\* `return Err(e)` / `?` inside execute_in_container
ExecErr(msg) == [kind |-> "Err", error |-> msg]
ExecOk == [kind |-> "Ok", error |-> ""]

StartContainer(r) ==
    /\ pc[r] = "start"
    /\ \/ /\ engine[Cid(r)].state = "created"
          /\ engine' = [engine EXCEPT ![Cid(r)].state = "running",
                                       ![Cid(r)].started = Some(clock)]
          /\ ops' = [ops EXCEPT ![r] = Append(@, Call("start", TRUE))]
          /\ pc' = [pc EXCEPT ![r] = "wait"]
          /\ UNCHANGED locals
       \/ /\ exec_result' = [exec_result EXCEPT ![r] =
                 ExecErr(ErrContainer("Failed to start container: " \o EngineMsg))]
          /\ ops' = [ops EXCEPT ![r] = Append(@, Call("start", FALSE))]
          /\ pc' = [pc EXCEPT ![r] = "drop"]
          /\ UNCHANGED <<engine, wait_code, harvested, limited, duration_ms>>
    /\ UNCHANGED <<globals, files, clock, outer, logs, temp_dir, container_id, exec_command, ret>>

\* wait_container: Ok(Ok(exit_code))
WaitExit(r) ==
    /\ pc[r] = "wait"
    /\ engine[Cid(r)].exit # None
    /\ wait_code' = [wait_code EXCEPT ![r] = engine[Cid(r)].exit[1]]
    /\ ops' = [ops EXCEPT ![r] = Append(@, Call("wait", TRUE))]
    /\ pc' = [pc EXCEPT ![r] = "logs"]
    /\ UNCHANGED <<globals, files, clock, outer, logs, temp_dir, container_id, engine, exec_command,
                   harvested, limited, exec_result, duration_ms, ret>>

\* wait_container: Ok(Err(e))
WaitError(r) ==
    /\ pc[r] = "wait"
    /\ exec_result' = [exec_result EXCEPT ![r] =
           ExecErr(ErrContainer("Container wait failed: " \o EngineMsg))]
    /\ ops' = [ops EXCEPT ![r] = Append(@, Call("wait", FALSE))]
    /\ pc' = [pc EXCEPT ![r] = "wait_failed"]
    /\ UNCHANGED <<globals, files, clock, outer, logs, temp_dir, container_id, engine, exec_command,
                   wait_code, harvested, limited, duration_ms, ret>>

WaitTimeout_bad(r) ==
    /\ pc[r] = "wait"
    /\ engine[Cid(r)].state = "running"
    /\ ops' = [ops EXCEPT ![r] = Append(@, Call("wait_timeout", TRUE))]
    /\ exec_result' = [exec_result EXCEPT ![r] = ExecErr(ErrTimeout)]
    /\ pc' = [pc EXCEPT ![r] = "wait_failed"]
    /\ UNCHANGED <<globals, files, clock, outer, logs, temp_dir, container_id, engine, exec_command,
                   wait_code, harvested, limited, duration_ms, ret>>

\* wait_container: Err(_), the deadline fired before the container exited;
\* a stop is requested and its answer ignored
WaitTimeout(r) ==
    /\ pc[r] = "wait"
    /\ engine[Cid(r)].state = "running"
    /\ \E ok \in BOOLEAN :
         /\ engine' = [engine EXCEPT ![Cid(r)] = engine_stop(@, ok)]
         /\ ops' = [ops EXCEPT ![r] =
                @ \o << Call("wait_timeout", TRUE), Call("stop", ok) >>]
    /\ exec_result' = [exec_result EXCEPT ![r] = ExecErr(ErrTimeout)]
    /\ pc' = [pc EXCEPT ![r] = "wait_failed"]
    /\ UNCHANGED <<globals, files, clock, outer, logs, temp_dir, container_id, exec_command,
                   wait_code, harvested, limited, duration_ms, ret>>

RemoveCall_bad(r) == UNCHANGED <<engine, ops>>

\* ContainerManager::remove_container issued for request r: the engine's
\* answer is logged and dropped
RemoveCall(r) ==
    \E ok \in BOOLEAN :
      /\ ok => Listed(Cid(r))
      /\ engine' = [engine EXCEPT ![Cid(r)] = engine_remove(@, ok)]
      /\ ops' = [ops EXCEPT ![r] = Append(@, Call("remove", ok))]

\* lines 164-170: the Err arm of the wait
WaitFailed(r) ==
    /\ pc[r] = "wait_failed"
    /\ IF ~Keep(r) THEN RemoveCall(r) ELSE UNCHANGED <<engine, ops>>
    /\ pc' = [pc EXCEPT ![r] = "drop"]
    /\ UNCHANGED <<globals, files, clock, outer, logs, temp_dir, container_id, exec_command, locals, ret>>

\* get_container_logs
GetLogs(r) ==
    /\ pc[r] = "logs"
    /\ \/ /\ Listed(Cid(r))
          /\ \E so \in Streams, se \in Streams :
               LET text == engine_logs(as_line(so), as_line(se))
               IN  /\ logs' = [logs EXCEPT ![r] = text]
                   /\ harvested' = [harvested EXCEPT ![r] =
                                       parse_container_logs(text)]
          /\ ops' = [ops EXCEPT ![r] = Append(@, Call("logs", TRUE))]
          /\ pc' = [pc EXCEPT ![r] = "limits"]
          /\ UNCHANGED exec_result
       \/ /\ exec_result' = [exec_result EXCEPT ![r] =
                 ExecErr(ErrContainer("Failed to get logs: " \o EngineMsg))]
          /\ ops' = [ops EXCEPT ![r] = Append(@, Call("logs", FALSE))]
          /\ pc' = [pc EXCEPT ![r] = "drop"]
          /\ UNCHANGED <<harvested, logs>>
    /\ UNCHANGED <<globals, files, clock, outer, temp_dir, container_id, engine, exec_command,
                   wait_code, limited, duration_ms, ret>>

\* line 177; a panic unwinds run_script: its locals drop, nothing is returned
ApplyLimits(r) ==
    /\ pc[r] = "limits"
    /\ LET l == apply_output_limits(harvested[r][1], harvested[r][2], output_limit)
       IN  IF l.panic
           THEN /\ pc' = [pc EXCEPT ![r] = "panicked"]
                /\ temp_dir' = [temp_dir EXCEPT ![r] = drop_temp_dir(@)]
                /\ ops' = [ops EXCEPT ![r] = @ \o drop_events(temp_dir[r])]
                /\ UNCHANGED limited
           ELSE /\ pc' = [pc EXCEPT ![r] = "exec_cleanup"]
                /\ limited' = [limited EXCEPT ![r] = l]
                /\ UNCHANGED <<temp_dir, ops>>
    /\ UNCHANGED <<globals, files, clock, outer, logs, container_id, engine, exec_command,
                   wait_code, harvested, exec_result, duration_ms, ret>>

\* lines 179-186
ExecCleanup(r) ==
    /\ pc[r] = "exec_cleanup"
    /\ IF ~Keep(r) THEN RemoveCall(r) ELSE UNCHANGED <<engine, ops>>
    /\ exec_result' = [exec_result EXCEPT ![r] = ExecOk]
    /\ pc' = [pc EXCEPT ![r] = "drop"]
    /\ UNCHANGED <<globals, files, clock, outer, logs, temp_dir, container_id, exec_command,
                   wait_code, harvested, limited, duration_ms, ret>>

----------------------------------------------------------------------------
(* executor.rs: the tail of run_script, lines 126-149 *)

DropTempDir(r) ==
    /\ pc[r] = "drop"
    /\ \E d \in DurationSamples :
         duration_ms' = [duration_ms EXCEPT ![r] = d]
    /\ temp_dir' = [temp_dir EXCEPT ![r] = drop_temp_dir(@)]
    /\ ops' = [ops EXCEPT ![r] = @ \o drop_events(temp_dir[r])]
    /\ pc' = [pc EXCEPT ![r] = "match"]
    /\ UNCHANGED <<globals, files, clock, outer, logs, container_id, engine, exec_command,
                   wait_code, harvested, limited, exec_result, ret>>

ReturnOk(r, record) ==
    /\ ret' = [ret EXCEPT ![r] = [kind |-> "Ok", value |-> Some(record), error |-> None]]
    /\ pc' = [pc EXCEPT ![r] = "done"]

\* the Ok arm
MatchOk(r) ==
    /\ pc[r] = "match"
    /\ exec_result[r].kind = "Ok"
    /\ ReturnOk(r, ExecutionResult_success(CastI32ToU32(wait_code[r]),
                       limited[r].stdout, limited[r].stderr,
                       duration_ms[r], limited[r].truncated))
    /\ UNCHANGED <<globals, files, clock, outer, logs, temp_dir, container_id, engine, exec_command, locals, ops>>

MatchErr_bad(r) ==
    /\ pc[r] = "match"
    /\ exec_result[r].kind = "Err"
    /\ IF ~Keep(r) THEN RemoveCall(r) ELSE UNCHANGED <<engine, ops>>
    /\ ret' = [ret EXCEPT ![r] =
           [kind |-> "Err", value |-> None, error |-> Some(exec_result[r].error)]]
    /\ pc' = [pc EXCEPT ![r] = "done"]
    /\ UNCHANGED <<globals, files, clock, outer, logs, temp_dir, container_id, exec_command, locals>>

\* the Err arm
MatchErr(r) ==
    /\ pc[r] = "match"
    /\ exec_result[r].kind = "Err"
    /\ IF ~Keep(r) THEN RemoveCall(r) ELSE UNCHANGED <<engine, ops>>
    /\ ReturnOk(r, ExecutionResult_error(exec_result[r].error, duration_ms[r]))
    /\ UNCHANGED <<globals, files, clock, outer, logs, temp_dir, container_id, exec_command, locals>>

----------------------------------------------------------------------------

Next ==
    \/ \E r \in ReqIds :
         \/ ValidatePath(r)
         \/ ReadScript(r)
         \/ ValidateContent(r)
         \/ CreateTempDir(r)
         \/ WriteScript(r)
         \/ CreateContainer(r)
         \/ StartContainer(r)
         \/ WaitExit(r)
         \/ WaitError(r)
         \/ WaitTimeout(r)
         \/ WaitFailed(r)
         \/ GetLogs(r)
         \/ ApplyLimits(r)
         \/ ExecCleanup(r)
         \/ DropTempDir(r)
         \/ MatchOk(r)
         \/ MatchErr(r)
    \/ \E c \in ReqIds :
         \/ EngineExit(c)
         \/ EngineAutoRemove(c)

Spec == Init /\ [][Next]_vars

----------------------------------------------------------------------------
(* Properties *)

Returned(r) == pc[r] = "done"
Created(r) == container_id[r] # None
Record(r) == ret[r].value[1]
SentSpec(r) == engine[Cid(r)].spec[1]
Issued(r, op) == \E i \in 1..Len(ops[r]) : ops[r][i].op = op
IssuedWith(r, op, ok) == \E i \in 1..Len(ops[r]) : ops[r][i] = Call(op, ok)
SuffixLen == Len(TRUNCATED_SUFFIX)

\* C1 as stated: when run has returned for a request whose container was
\* created and that is not debug-retained, the container is not in the
\* engine's list.
C1_NoContainerRemains ==
    \A r \in live :
      Returned(r) /\ Created(r) /\ ~req[r].keep_container => ~Listed(Cid(r))

\* C1 amended: when run has returned for such a request, at least one remove
\* call was issued for its container, and the container is absent from the
\* engine's list if one of the remove calls succeeded; it can remain listed
\* only when the engine refused every remove call.
C1_RemoveIssuedAndEffective ==
    \A r \in live :
      Returned(r) /\ Created(r) /\ ~req[r].keep_container
        => /\ Issued(r, "remove")
           /\ IssuedWith(r, "remove", TRUE) => ~Listed(Cid(r))

C1_Witness ==
    \E r \in live :
      /\ Returned(r) /\ Created(r) /\ ~req[r].keep_container
      /\ IssuedWith(r, "wait_timeout", TRUE)
      /\ IssuedWith(r, "remove", TRUE)
      /\ engine[Cid(r)].state = "removed"

\* C2: once run has returned, on whatever path, the workspace directory and
\* the script in it no longer exist.
C2_WorkspaceDeleted ==
    \A r \in live : Returned(r) => temp_dir[r] \notin {"dir", "script"}

C2_Witness ==
    \E r \in live :
      /\ Returned(r) /\ ret[r].kind = "Err"
      /\ IssuedWith(r, "create", FALSE)
      /\ temp_dir[r] = "deleted"

\* C3 as stated: when run has returned a record, the request's container is
\* not running.
C3_NotRunningAtReturn ==
    \A r \in live :
      Returned(r) /\ ret[r].kind = "Ok" /\ Created(r)
        => engine[Cid(r)].state # "running"

\* C3 amended: when run has returned a record, a remove call was issued
\* unless debug retention is set (then none was), and the container is
\* running only if the wait failed or the stop after a timeout failed, and no
\* remove call succeeded.
C3_RunningOnlyAfterEngineFailure ==
    \A r \in live :
      Returned(r) /\ ret[r].kind = "Ok" /\ Created(r)
        => /\ Issued(r, "remove") <=> ~req[r].keep_container
           /\ engine[Cid(r)].state = "running"
                => /\ IssuedWith(r, "wait", FALSE) \/ IssuedWith(r, "stop", FALSE)
                   /\ ~IssuedWith(r, "remove", TRUE)

C3_Witness ==
    \E r \in live :
      /\ Returned(r) /\ ret[r].kind = "Ok" /\ req[r].keep_container
      /\ IssuedWith(r, "stop", TRUE)
      /\ engine[Cid(r)].state = "exited"

\* C4: a run whose wait timed out requested a stop, and returns the record
\* status "error", exit_code 1, error "Execution timeout exceeded", after a
\* remove call (unless debug retention) and after deleting the workspace.
C4_TimeoutRecord ==
    \A r \in live :
      Returned(r) /\ Issued(r, "wait_timeout")
        => /\ Issued(r, "stop")
           /\ ret[r].kind = "Ok"
           /\ Record(r).status = "error"
           /\ Record(r).exit_code = U32(0, 1)
           /\ Record(r).error = Some("Execution timeout exceeded")
           /\ ~req[r].keep_container => Issued(r, "remove")
           /\ temp_dir[r] = "deleted"

C4_Witness ==
    \E r \in live :
      /\ Returned(r) /\ Issued(r, "wait_timeout")
      /\ ~req[r].keep_container
      /\ IssuedWith(r, "stop", FALSE)

\* C5 as stated: run always ends by returning a record.
C5_AlwaysARecord ==
    \A r \in live : Returned(r) => ret[r].kind = "Ok"

\* C5 amended: an error of start, wait or log fetch (a container exists) is
\* returned as a record status "error", exit_code 1, error = the message; an
\* error before that (path validation, read, content validation, workspace,
\* container create) makes run return the error itself and no record.
C5_ErrorsAfterCreateBecomeRecords ==
    \A r \in live :
      Returned(r) =>
        /\ ret[r].kind = "Ok" <=> Created(r)
        /\ ret[r].kind = "Err" => ret[r].error # None /\ ret[r].value = None
        /\ ( IssuedWith(r, "start", FALSE) \/ IssuedWith(r, "wait", FALSE)
             \/ Issued(r, "wait_timeout") \/ IssuedWith(r, "logs", FALSE) )
             => /\ ret[r].kind = "Ok"
                /\ Record(r).status = "error"
                /\ Record(r).exit_code = U32(0, 1)
                /\ Record(r).error = Some(exec_result[r].error)
                /\ exec_result[r].kind = "Err"

C5_Witness ==
    \E r \in live :
      /\ Returned(r) /\ IssuedWith(r, "logs", FALSE)
      /\ Record(r).error = Some("Container error: Failed to get logs: " \o EngineMsg)

\* C6: every returned record has a status among success, failed, error;
\* success iff exit_code = 0 and no error; failed iff no error and exit_code
\* non-zero; error present iff status error, and then exit_code = 1; a
\* harvested run carries the engine's exit code as an unsigned 32-bit value.
C6_RecordInvariant ==
    \A r \in live :
      Returned(r) /\ ret[r].kind = "Ok" =>
        LET rec == Record(r) IN
        /\ rec.status \in {"success", "failed", "error"}
        /\ rec.status = "success" <=> (rec.exit_code = U32(0, 0) /\ rec.error = None)
        /\ rec.status = "failed" <=> (rec.error = None /\ rec.exit_code # U32(0, 0))
        /\ rec.error # None <=> rec.status = "error"
        /\ rec.status = "error" => rec.exit_code = U32(0, 1)
        /\ IssuedWith(r, "logs", TRUE) =>
             /\ engine[Cid(r)].exit[1] >= 0
                  => rec.exit_code = U32(0, engine[Cid(r)].exit[1])
             /\ engine[Cid(r)].exit[1] = -1
                  => rec.exit_code = U32(65535, 65535)

C6_Witness ==
    \E r \in live :
      /\ Returned(r) /\ ret[r].kind = "Ok"
      /\ Record(r).status = "failed"
      /\ Record(r).exit_code = U32(0, 7)

\* the result the claim C7 gives for one stream
Capped(s, cap) ==
    IF Len(s) > cap THEN SubSeq(s, 1, cap) \o TRUNCATED_SUFFIX ELSE s

\* C7: once the output limits have been applied to the harvested streams,
\* each stream longer than the cap is its first cap bytes followed by
\* "... [truncated]", each other stream is unchanged, truncated is true iff a
\* stream was longer than the cap, and then both are at most cap+15 long and
\* one is exactly cap+15 long.
C7_CappingPerStream ==
    \A r \in live :
      IssuedWith(r, "logs", TRUE) /\ pc[r] # "limits" =>
        LET so == harvested[r][1]
            se == harvested[r][2]
            l  == limited[r]
        IN  /\ l.stdout = Capped(so, output_limit)
            /\ l.stderr = Capped(se, output_limit)
            /\ l.truncated <=> (Len(so) > output_limit \/ Len(se) > output_limit)
            /\ l.truncated =>
                 /\ Len(l.stdout) <= output_limit + SuffixLen
                 /\ Len(l.stderr) <= output_limit + SuffixLen
                 /\ \/ Len(l.stdout) = output_limit + SuffixLen
                    \/ Len(l.stderr) = output_limit + SuffixLen

\* C8 as stated: in a returned record truncated is true iff an emitted
\* stream has length equal to the cap while the harvested one was longer.
C8_TruncatedIffLengthIsCap ==
    \A r \in live :
      Returned(r) /\ ret[r].kind = "Ok" =>
        ( Record(r).truncated <=>
            \/ Len(Record(r).stdout) = output_limit
                 /\ Len(harvested[r][1]) > output_limit
            \/ Len(Record(r).stderr) = output_limit
                 /\ Len(harvested[r][2]) > output_limit )

\* C8 amended: in a returned record truncated is true iff an emitted stream
\* has length equal to the cap plus 15, the length of "... [truncated]",
\* while the harvested one was longer than the cap.
C8_TruncatedIffLengthIsCapPlusSuffix ==
    \A r \in live :
      Returned(r) /\ ret[r].kind = "Ok" =>
        ( Record(r).truncated <=>
            \/ Len(Record(r).stdout) = output_limit + 15
                 /\ Len(harvested[r][1]) > output_limit
            \/ Len(Record(r).stderr) = output_limit + 15
                 /\ Len(harvested[r][2]) > output_limit )

C8_Witness ==
    \E r \in live :
      /\ Returned(r) /\ ret[r].kind = "Ok"
      /\ Record(r).truncated
      /\ Len(Record(r).stderr) = output_limit + 15
      /\ Len(Record(r).stdout) < output_limit

\* C9: every specification sent to the engine has the network disabled; for
\* a non-debug request it also has a read-only root, cap_drop = ["ALL"], no
\* added capability and a user beginning with "65532:"; none has a writable
\* root together with an enabled network.
C9_SpecIsolation ==
    \A r \in live :
      Created(r) =>
        LET sp == SentSpec(r) IN
        /\ ~req[r].keep_container =>
             /\ sp.network = Some("none")
             /\ sp.read_only_filesystem = Some(TRUE)
             /\ sp.cap_drop = Some(<< "ALL" >>)
             /\ sp.cap_add = None
             /\ sp.user # None /\ SubSeq(sp.user[1], 1, 6) = "65532:"
        /\ ~(sp.read_only_filesystem # Some(TRUE) /\ sp.network # Some("none"))

C9_Witness ==
    \E r \in live :
      /\ Created(r) /\ req[r].keep_container
      /\ SentSpec(r).read_only_filesystem = Some(FALSE)
      /\ SentSpec(r).network = Some("none")

\* the argv the claim C10 gives for each language
RecipeArgv(l) ==
    CASE l = "Python"     -> << "python3", "/workspace/script.py" >>
      [] l = "Javascript" -> << "node", "/workspace/script.js" >>
      [] l = "Php"        -> << "php", "/workspace/script.php" >>
      [] l = "Go"         -> << "go", "run", "/workspace/script.go" >>
      [] l = "Bash"       -> << "bash", "/workspace/script.sh" >>
      [] l = "Rust"       -> << "bash", "-c",
            "cd /tmp && rustc /workspace/script.rs -o rust_binary && ./rust_binary" >>
      [] l = "DotNet"     -> << "bash", "-c",
            "cd /tmp && dotnet new console -o app && cp /workspace/script.cs /tmp/app/Program.cs && cd app && dotnet run" >>

\* C10: the container created for a request of language L is given the argv
\* of L's recipe as its command.
C10_ContainerCommandIsRecipe ==
    \A r \in live :
      Created(r) => SentSpec(r).command = Some(RecipeArgv(req[r].language))

----------------------------------------------------------------------------
(* main.rs: the command-line program, one process per request.  The run     *)
(* command builds the driver, checks its options and the base image, and    *)
(* only then calls run_script; the output format is the default, json.      *)

\* the options of the run command; cpu in tenths
DefaultOpts == [timeout |-> 30, memory |-> 512, cpu |-> 10, max_output |-> 1024]

OptsSamples ==
    { DefaultOpts,
      [DefaultOpts EXCEPT !.timeout = 0],
      [DefaultOpts EXCEPT !.memory = 16],
      [DefaultOpts EXCEPT !.cpu = 41],
      [DefaultOpts EXCEPT !.max_output = 10241] }

CliRequestSet ==
    [language : Languages, script : ScriptSamples, keep_container : BOOLEAN,
     opts : OptsSamples]

\* one process, started on a run command
InitCli ==
    /\ live = {1}
    /\ \E x \in CliRequestSet :
         req = [r \in ReqIds |-> IF r \in live THEN x ELSE DefaultRequest]
    /\ defaultDebug \in BOOLEAN
    /\ output_limit \in 1..MaxCap
    /\ InitRunAt("main")
    /\ fn_in = None
    /\ fn_out = None

\* u32 as i32
CastU32ToI32(u) ==
    IF u.hi >= 32768 THEN (u.hi - 65536) * 65536 + u.lo
    ELSE u.hi * 65536 + u.lo

\* the process ends: what it printed on its standard output, its status
Exit(r, printed, code) ==
    /\ proc' = [proc EXCEPT ![r] = [printed |-> printed, exit |-> Some(code)]]
    /\ pc' = [pc EXCEPT ![r] = "exited"]

\* main returns an error (`?` or bail!): status 1, nothing on standard output
Bail(r) == Exit(r, None, 1)

ErrorJson(msg) == [status |-> "error", error |-> msg]

\* lines 109-111: ContainerManager::new pings the engine
MainNew(r) ==
    /\ pc[r] = "main"
    /\ \/ /\ ops' = [ops EXCEPT ![r] = Append(@, Call("ping", TRUE))]
          /\ pc' = [pc EXCEPT ![r] = "main_args"]
          /\ UNCHANGED proc
       \/ /\ ops' = [ops EXCEPT ![r] = Append(@, Call("ping", FALSE))]
          /\ Bail(r)
    /\ UNCHANGED <<globals, files, clock, fn_in, fn_out, logs, temp_dir, container_id,
                   engine, exec_command, locals, ret>>

\* lines 148-166
MainCheckArgs(r) ==
    /\ pc[r] = "main_args"
    /\ LET o == req[r].opts
       IN  IF \/ ~req[r].script.exists
              \/ o.timeout = 0 \/ o.timeout > 3600
              \/ o.memory < 32 \/ o.memory > 8192
              \/ o.cpu < 1 \/ o.cpu > 40
              \/ o.max_output = 0 \/ o.max_output > 10240
           THEN Bail(r)
           ELSE /\ pc' = [pc EXCEPT ![r] = "main_image"]
                /\ UNCHANGED proc
    /\ UNCHANGED <<globals, files, clock, fn_in, fn_out, logs, temp_dir, container_id,
                   engine, exec_command, locals, ret, ops>>

\* lines 168-182: base_image_exists inspects the image; the engine answers
\* found, not found, or fails
MainBaseImage(r) ==
    /\ pc[r] = "main_image"
    /\ \/ /\ ops' = [ops EXCEPT ![r] = Append(@, Call("image_inspect", TRUE))]
          /\ pc' = [pc EXCEPT ![r] = "validate_path"]
          /\ UNCHANGED proc
       \/ /\ ops' = [ops EXCEPT ![r] = Append(@, Call("image_inspect", FALSE))]
          /\ \/ Exit(r, Some(ErrorJson(
                    "Base image not found. Please run 'singleload install' first.")), 1)
             \/ Bail(r)
    /\ UNCHANGED <<globals, files, clock, fn_in, fn_out, logs, temp_dir, container_id,
                   engine, exec_command, locals, ret>>

\* lines 195-220: the result of run_script is printed, the status follows
MainOutput(r) ==
    /\ pc[r] = "done"
    /\ IF ret[r].kind = "Ok"
       THEN Exit(r, ret[r].value, CastU32ToI32(ret[r].value[1].exit_code))
       ELSE Exit(r, Some(ErrorJson(ret[r].error[1])), 1)
    /\ UNCHANGED <<globals, files, clock, fn_in, fn_out, logs, temp_dir, container_id,
                   engine, exec_command, locals, ret, ops>>

\* a panic in run_script ends the process with status 101
MainPanic(r) ==
    /\ pc[r] = "panicked"
    /\ Exit(r, None, 101)
    /\ UNCHANGED <<globals, files, clock, fn_in, fn_out, logs, temp_dir, container_id,
                   engine, exec_command, locals, ret, ops>>

NextCli ==
    \/ \E r \in ReqIds :
         \/ MainNew(r)
         \/ MainCheckArgs(r)
         \/ MainBaseImage(r)
         \/ MainOutput(r)
         \/ MainPanic(r)
    \/ Next

SpecCli == InitCli /\ [][NextCli]_vars

----------------------------------------------------------------------------
(* Functions studied on their own: the input is drawn at the start, one     *)
(* step applies the function, no request is run.                            *)

InitStudy(inputs) ==
    /\ live = {}
    /\ req = [r \in ReqIds |-> DefaultRequest]
    /\ defaultDebug = FALSE
    /\ output_limit = 1
    /\ InitRun
    /\ fn_in \in inputs
    /\ fn_out = None

StudyFrame ==
    UNCHANGED <<globals, files, clock, logs, proc, fn_in, pc, temp_dir, container_id, engine,
                exec_command, locals, ret, ops>>

----------------------------------------------------------------------------
(* security.rs: SeccompProfile::default, the syscall filter *)

RECURSIVE BitAnd(_, _)
BitAnd(a, b) ==
    IF a = 0 \/ b = 0 THEN 0
    ELSE (a % 2) * (b % 2) + 2 * BitAnd(a \div 2, b \div 2)

defaultAction == "SCMP_ACT_ALLOW"
defaultErrnoRet == 1

\* lines 271-371; a condition without valueTwo compares with 0
seccomp_syscalls ==
    << [names |-> {"acct", "add_key", "bpf", "clock_adjtime", "clock_settime",
                   "create_module", "delete_module", "finit_module",
                   "get_kernel_syms", "get_mempolicy", "init_module",
                   "io_cancel", "io_destroy", "io_getevents", "io_setup",
                   "io_submit", "ioperm", "iopl", "kexec_file_load",
                   "kexec_load", "keyctl", "lookup_dcookie", "mbind", "mount",
                   "move_pages", "name_to_handle_at", "nfsservctl",
                   "open_by_handle_at", "perf_event_open", "personality",
                   "pivot_root", "process_vm_readv", "process_vm_writev",
                   "ptrace", "query_module", "quotactl", "reboot",
                   "request_key", "set_mempolicy", "setns", "settimeofday",
                   "stime", "swapoff", "swapon", "sysfs", "syslog", "umount",
                   "umount2", "unshare", "uselib", "userfaultfd", "ustat",
                   "vm86", "vm86old"},
        action |-> "SCMP_ACT_ERRNO",
        args |-> {},
        errnoRet |-> Some(1)],
       [names |-> {"clone"},
        action |-> "SCMP_ACT_ALLOW",
        args |-> {[index |-> 0, value |-> 2114060288, valueTwo |-> 0,
                   op |-> "SCMP_CMP_MASKED_EQ"]},
        errnoRet |-> None],
       [names |-> {"chmod", "fchmod", "fchmodat"},
        action |-> "SCMP_ACT_ALLOW",
        args |-> {[index |-> 1, value |-> 2048, valueTwo |-> 0,
                   op |-> "SCMP_CMP_MASKED_EQ"]},
        errnoRet |-> Some(1)] >>

\* a system call: its name and its arguments, argument 0 first
arg_matches(cond, call) ==
    cond.op = "SCMP_CMP_MASKED_EQ"
    /\ BitAnd(call.args[cond.index + 1], cond.value) = cond.valueTwo

rule_applies(rule, call) ==
    /\ call.name \in rule.names
    /\ \A cond \in rule.args : arg_matches(cond, call)

\* The verdict of the filter on a call: the action of the first rule that
\* applies, the default action when none does.
seccomp_verdict(syscalls, call) ==
    LET hit == { i \in 1..Len(syscalls) : rule_applies(syscalls[i], call) }
        first == CHOOSE i \in hit : \A j \in hit : i <= j
    IN  IF hit = {} THEN
            [action |-> defaultAction,
             errno  |-> IF defaultAction = "SCMP_ACT_ERRNO"
                        THEN Some(defaultErrnoRet) ELSE None]
        ELSE
            [action |-> syscalls[first].action,
             errno  |-> IF syscalls[first].action = "SCMP_ACT_ERRNO"
                        THEN syscalls[first].errnoRet ELSE None]

\* clone flags: none, a thread (CLONE_VM|FS|FILES|SIGHAND|THREAD|SYSVSEM|
\* SETTLS|PARENT_SETTID|CHILD_CLEARTID), CLONE_NEWNS, CLONE_NEWUSER,
\* CLONE_NEWNET|CLONE_NEWPID, a thread with CLONE_NEWNS;
\* file modes: 0644, 0755, SGID 02000, SUID 04000, 04755, 06755
ArgSamples ==
    {0, 4001536, 131072, 268435456, 1610612736, 4132608,
     420, 493, 1024, 2048, 2541, 3565}

SyscallSamples ==
    {"clone", "chmod", "fchmod", "fchmodat", "mount", "unshare", "read"}

SyscallSet ==
    [name : SyscallSamples,
     args : ArgSamples \X {0, 420, 1024, 2048} \X {0, 420, 1024, 2048}]

InitSeccomp == InitStudy(SyscallSet)

\* the kernel consults the filter on a call of the contained process
SeccompFilter ==
    /\ fn_out = None
    /\ fn_out' = Some(seccomp_verdict(seccomp_syscalls, fn_in))
    /\ StudyFrame

SpecSeccomp == InitSeccomp /\ [][SeccompFilter]_vars

Allowed(v) == v.action = "SCMP_ACT_ALLOW"
Denied(v) == v.action = "SCMP_ACT_ERRNO"

\* C11: under the default profile a clone call is allowed when its flags
\* argument masked with 2114060288 is zero, and is denied when a
\* namespace-creation bit of that mask is set.
C11_CloneNamespacesDenied ==
    (fn_out # None /\ fn_in.name = "clone") =>
        /\ BitAnd(fn_in.args[1], 2114060288) = 0 => Allowed(fn_out[1])
        /\ BitAnd(fn_in.args[1], 2114060288) # 0 => Denied(fn_out[1])

\* C12: under the default profile a chmod, fchmod or fchmodat call whose mode
\* has the SUID (04000) or the SGID (02000) bit is denied with errno 1, and
\* one whose mode has neither bit is allowed.  The mode is argument 1 of
\* chmod and fchmod and argument 2 of fchmodat.
C12_SetIdModesDenied ==
    (fn_out # None /\ fn_in.name \in {"chmod", "fchmod", "fchmodat"}) =>
        LET mode == IF fn_in.name = "fchmodat" THEN fn_in.args[3]
                    ELSE fn_in.args[2]
            setid == BitAnd(mode, 2048) # 0 \/ BitAnd(mode, 1024) # 0
        IN  /\ setid => (Denied(fn_out[1]) /\ fn_out[1].errno = Some(1))
            /\ ~setid => Allowed(fn_out[1])

----------------------------------------------------------------------------
(* Rejected scripts and the engine *)

EngineOps ==
    {"ping", "image_inspect", "create", "start", "wait", "wait_timeout",
     "stop", "logs", "remove"}

\* the validator rejects the script of request r
Rejected(r) ==
    \/ ~validate_script_path(allowed_extensions, req[r].script).ok
    \/ ~validate_script_content(req[r].script.content).ok

Categories == {"Script file not found: ", "Invalid input: ", "Security violation: "}

Categorized(msg) == \E c \in Categories : starts_with(msg, c)

\* a categorized error; reading the file (executor.rs 60) comes between the
\* two validations and can fail with the error of the operating system
RejectionError(msg) == Categorized(msg) \/ msg = IoMsg

\* C13 as stated: a run request whose script the validator rejects gets a
\* categorized error and causes no engine call at all, the probe and the
\* image inspection included.
C13_RejectedNoEngineCall ==
    \A r \in live :
        (Rejected(r) /\ pc[r] \in {"done", "exited"}) =>
            /\ ret[r].kind = "Err" => RejectionError(ret[r].error[1])
            /\ \A i \in DOMAIN ops[r] : ops[r][i].op \notin EngineOps

\* C13, amended: for a request whose script the validator rejects, the only
\* engine calls are the probe and the image inspection that main makes
\* before it calls run_script; run_script, once called, returns a categorized
\* error (or the error of reading the file) without any engine call or
\* workspace.
C13_RejectedNoRunCall ==
    \A r \in live :
        Rejected(r) =>
            /\ \A i \in DOMAIN ops[r] : ops[r][i].op \in {"ping", "image_inspect"}
            /\ ret[r].kind # "None" =>
                  /\ ret[r].kind = "Err" /\ RejectionError(ret[r].error[1])
                  /\ ops[r] = <<Call("ping", TRUE), Call("image_inspect", TRUE)>>

C13_Witness ==
    /\ pc[1] = "exited"
    /\ Rejected(1)
    /\ ret[1].kind = "Err" /\ Categorized(ret[1].error[1])
    /\ ops[1] = <<Call("ping", TRUE), Call("image_inspect", TRUE)>>
    /\ proc[1].exit = Some(1)

----------------------------------------------------------------------------
(* security.rs: validate_script_path on its own *)

AllowLists ==
    { allowed_extensions,
      allowed_extensions \cup {".so"},
      {".py", ".txt", ".ko", ".dll"} }

\* last components of paths as given
NameSamples ==
    {"run.py", "notes.txt", "README", "lib.so", "a..b.py", ".hidden",
     "mod.ko", "run."}

\* what the path resolves to: itself (None), or the target of a symlink
LinkSamples == {None, Some("evil.so"), Some("real.py"), Some("v1..2.py")}

PathSamples ==
    { [exists |-> e, is_file |-> f, file_name |-> n, size |-> z,
       canonical |-> PathOfDepth(d, IF l = None THEN n ELSE l[1]),
       content |-> <<120>>] :
        e \in BOOLEAN, f \in BOOLEAN, n \in NameSamples, l \in LinkSamples,
        z \in {12, MAX_SCRIPT_SIZE, MAX_SCRIPT_SIZE + 1},
        d \in {4, MAX_PATH_DEPTH, MAX_PATH_DEPTH + 1} }

\* a file that does not exist is not a regular file
ValidateSet ==
    { x \in [allowed : AllowLists, script : PathSamples] :
        x.script.is_file => x.script.exists }

InitValidate == InitStudy(ValidateSet)

ValidateScriptPath ==
    /\ fn_out = None
    /\ fn_out' = Some(validate_script_path(fn_in.allowed, fn_in.script))
    /\ StudyFrame

SpecValidate == InitValidate /\ [][ValidateScriptPath]_vars

Last(seq) == seq[Len(seq)]

\* the two extension checks pass on the dotted extension ext
ExtensionPasses(allowed, ext) ==
    ext \in allowed /\ ext \notin SUSPICIOUS_EXTENSIONS

ExtensionError(msg) ==
    \/ starts_with(msg, "Invalid input: File extension")
    \/ starts_with(msg, "Security violation: Suspicious file extension")

\* the text of a component holds two consecutive dots
HasDotDot(name) == \E k \in 1..(Len(name) - 1) : SubSeq(name, k, k + 1) = ".."

\* the checks other than the extension checks pass
RestPasses(s) ==
    /\ s.exists /\ s.is_file
    /\ s.size <= MAX_SCRIPT_SIZE
    /\ Len(s.canonical) <= MAX_PATH_DEPTH
    /\ \A i \in DOMAIN s.canonical : ~HasDotDot(s.canonical[i])

\* C14 as stated: the extension checks are applied to the canonical path,
\* so the verdict is the one the extension of the file the path resolves to
\* commands.
C14_ExtensionOfCanonicalPath ==
    fn_out # None =>
        LET s == fn_in.script
        IN  RestPasses(s) =>
              (fn_out[1].ok <=>
                 ExtensionPasses(fn_in.allowed, dotted_extension(Last(s.canonical))))

\* C14, amended: the extension checks are applied to the path as given and
\* come before canonicalization: a given extension that fails them is
\* rejected with an extension error whatever the canonical path is, and one
\* that passes them is accepted when the other checks pass, whatever the
\* extension of the file the path resolves to.
C14_ExtensionOfGivenPath ==
    fn_out # None =>
        LET s == fn_in.script
            passes == ExtensionPasses(fn_in.allowed, dotted_extension(s.file_name))
        IN  /\ (s.exists /\ s.is_file /\ ~passes) =>
                  (~fn_out[1].ok /\ ExtensionError(fn_out[1].err))
            /\ (RestPasses(s) /\ passes) => fn_out[1].ok

\* a symlink with an allowed name to a file with a forbidden extension
C14_Witness ==
    /\ fn_out # None
    /\ fn_in.script.file_name = "run.py"
    /\ Last(fn_in.script.canonical) = "evil.so"
    /\ RestPasses(fn_in.script)
    /\ fn_out[1].ok

\* the file exists, is regular, has an allowed extension and a size within
\* the limit
C15_Pre ==
    /\ fn_out # None
    /\ fn_in.script.exists /\ fn_in.script.is_file
    /\ ExtensionPasses(fn_in.allowed, dotted_extension(fn_in.script.file_name))
    /\ fn_in.script.size <= MAX_SCRIPT_SIZE

\* C15 as stated: such a file is accepted iff its canonical path has no
\* component equal to ".." and at most 10 components; a name that merely
\* contains two dots is no obstacle.
C15_AcceptIffNoDotDotComponent ==
    C15_Pre =>
        (fn_out[1].ok <=>
            /\ \A i \in DOMAIN fn_in.script.canonical :
                   fn_in.script.canonical[i] # ".."
            /\ Len(fn_in.script.canonical) <= 10)

\* C15, amended: such a file is accepted iff no component of its canonical
\* path contains two consecutive dots and the path has at most 10
\* components.
C15_AcceptIffNoDotDotText ==
    C15_Pre =>
        (fn_out[1].ok <=>
            /\ \A i \in DOMAIN fn_in.script.canonical :
                   ~HasDotDot(fn_in.script.canonical[i])
            /\ Len(fn_in.script.canonical) <= 10)

\* a file name with two consecutive dots, rejected as a traversal
C15_Witness ==
    /\ C15_Pre
    /\ fn_in.script.file_name = "a..b.py"
    /\ Last(fn_in.script.canonical) = "a..b.py"
    /\ Len(fn_in.script.canonical) <= 10
    /\ fn_out[1] = Err(ErrSecurityViolation("Path traversal detected"))

\* C16: a path whose extension is .so, .dll, .dylib, .ko or .sys is rejected
\* under every allow-list, the ones that contain the extension included, and
\* a path whose dotted extension (or lack of one) is not in the allow-list is
\* rejected.
C16_ForbiddenAndUnlistedRejected ==
    fn_out # None =>
        LET ext == dotted_extension(fn_in.script.file_name)
        IN  /\ ext \in {".so", ".dll", ".dylib", ".ko", ".sys"} => ~fn_out[1].ok
            /\ ext \notin fn_in.allowed => ~fn_out[1].ok

\* a forbidden extension that the allow-list contains
C16_Witness ==
    /\ fn_out # None
    /\ fn_in.script.exists /\ fn_in.script.is_file
    /\ dotted_extension(fn_in.script.file_name) = ".so"
    /\ ".so" \in fn_in.allowed
    /\ ~fn_out[1].ok

----------------------------------------------------------------------------
(* security.rs: validate_script_content on its own *)

\* a zero byte, the byte "x", and each of the patterns of the scan
Fragments == { <<0>>, <<120>> } \cup suspicious_patterns

RECURSIVE ContentsUpTo(_)
ContentsUpTo(n) ==
    IF n = 0 THEN { <<>> }
    ELSE LET S == ContentsUpTo(n - 1)
         IN  S \cup { c \o f : c \in S, f \in Fragments }

InitContent == InitStudy(ContentsUpTo(MaxFragments))

\* the scan runs only when there is no zero byte (line 182 returns)
ValidateScriptContent ==
    /\ fn_out = None
    /\ fn_out' = Some([result |-> validate_script_content(fn_in),
                       warned |-> IF validate_script_content(fn_in).ok
                                  THEN content_warnings(fn_in) ELSE {}])
    /\ StudyFrame

SpecContent == InitContent /\ [][ValidateScriptContent]_vars

HasZeroByte(content) == \E i \in DOMAIN content : content[i] = 0

\* C17: validate_content returns an error iff the content holds a zero byte,
\* the message mentions "null bytes"; content with suspicious substrings and
\* no zero byte is accepted.
C17_ErrorIffZeroByte ==
    fn_out # None =>
        /\ ~fn_out[1].result.ok <=> HasZeroByte(fn_in)
        /\ ~fn_out[1].result.ok => Contains(fn_out[1].result.err, "null bytes")
        /\ (\E pat \in suspicious_patterns : Contains(fn_in, pat)) /\ ~HasZeroByte(fn_in)
              => fn_out[1].result.ok

\* content that the scan warns about, accepted
C17_Witness ==
    /\ fn_out # None
    /\ <<115, 101, 116, 117, 105, 100>> \in fn_out[1].warned
    /\ ~HasZeroByte(fn_in)
    /\ fn_out[1].result = Ok

----------------------------------------------------------------------------
(* container.rs: parse_container_logs on its own *)

LogBytes == {"1", "2", " ", "x", LF, CR}

RECURSIVE TextsUpTo(_)
TextsUpTo(n) ==
    IF n = 0 THEN { <<>> }
    ELSE LET S == TextsUpTo(n - 1)
         IN  S \cup { t \o <<b>> : t \in S, b \in LogBytes }

InitLogs == InitStudy(TextsUpTo(MaxLogLen))

ParseContainerLogs ==
    /\ fn_out = None
    /\ fn_out' = Some(parse_container_logs(fn_in))
    /\ StudyFrame

SpecLogs == InitLogs /\ [][ParseContainerLogs]_vars

\* The lines of a text, stated from the positions of its line ends: line k
\* runs from after line end k-1 to before line end k, a last piece without
\* line end is a line when it is not empty.  With crlf, a CR just before the
\* LF belongs to the line end.
LinesOf(text, crlf) ==
    LET ends == { i \in DOMAIN text : text[i] = LF }
        n == Cardinality(ends)
        end(k) == CHOOSE i \in ends : Cardinality({ j \in ends : j < i }) = k - 1
        from(k) == IF k = 1 THEN 1 ELSE end(k - 1) + 1
        upto(k) == IF crlf /\ end(k) > from(k) /\ text[end(k) - 1] = CR
                   THEN end(k) - 2 ELSE end(k) - 1
        tail == IF n = 0 THEN text ELSE SubSeq(text, end(n) + 1, Len(text))
    IN  [k \in 1..n |-> SubSeq(text, from(k), upto(k))]
        \o (IF tail = <<>> THEN <<>> ELSE <<tail>>)

ToStderr(line) == Len(line) >= 2 /\ line[1] = "2" /\ line[2] = " "
ToStdout(line) == ~ToStderr(line)
Prefixed(line) == Len(line) >= 2 /\ line[1] \in {"1", "2"} /\ line[2] = " "

\* a line without its stream prefix
Payload(line) ==
    IF Prefixed(line) THEN [i \in 1..(Len(line) - 2) |-> line[i + 2]] ELSE line

\* the payloads of the lines, in order, each followed by LF
RECURSIVE Assembled(_)
Assembled(ls) ==
    IF ls = <<>> THEN <<>> ELSE Payload(Head(ls)) \o <<LF>> \o Assembled(Tail(ls))

\* s without its longest suffix made of the bytes of drop
WithoutTrailing(s, drop) ==
    LET keep == { i \in DOMAIN s : s[i] \notin drop }
        n == IF keep = {} THEN 0 ELSE CHOOSE i \in keep : \A j \in keep : j <= i
    IN  [i \in 1..n |-> s[i]]

\* C18 as stated: every line goes to exactly one stream in order, "1 " to
\* stdout and "2 " to stderr without the prefix, any other line to stdout
\* unchanged, and only trailing newlines are removed from each stream.
C18_OnlyNewlinesTrimmed ==
    fn_out # None =>
        LET ls == LinesOf(fn_in, FALSE)
        IN  /\ fn_out[1][1] =
                 WithoutTrailing(Assembled(SelectSeq(ls, ToStdout)), {LF})
            /\ fn_out[1][2] =
                 WithoutTrailing(Assembled(SelectSeq(ls, ToStderr)), {LF})

\* C18, amended: the lines are those of str::lines (ended by LF or CR LF);
\* every line goes to exactly one stream in order, "1 " to stdout and "2 "
\* to stderr without the prefix, any other line to stdout unchanged, and all
\* trailing whitespace, not only newlines, is removed from each stream.
C18_TrailingWhitespaceTrimmed ==
    fn_out # None =>
        LET ls == LinesOf(fn_in, TRUE)
        IN  /\ fn_out[1][1] =
                 WithoutTrailing(Assembled(SelectSeq(ls, ToStdout)), {" ", LF, CR})
            /\ fn_out[1][2] =
                 WithoutTrailing(Assembled(SelectSeq(ls, ToStderr)), {" ", LF, CR})

\* a stderr line that ends with a space: the space is removed too
C18_Witness ==
    /\ fn_in = <<"2", " ", "x", " ">>
    /\ fn_out = Some(<< <<>>, <<"x">> >>)

----------------------------------------------------------------------------
(* The record of a run that prints one short line *)

\* the log text of a container that wrote the one-byte text "x" and a
\* newline to its standard output and nothing to its standard error
HelloLogs == engine_logs(<<"x", LF>>, <<>>)

\* request r returned a record for such a container, which exited with 0;
\* the two bytes written are within the cap
HelloRun(r) ==
    /\ ret[r].kind = "Ok"
    /\ logs[r] = HelloLogs
    /\ wait_code[r] = 0
    /\ Len(<<"x", LF>>) <= output_limit

\* C19 as stated: the record of such a run has status "success", exit code
\* 0, the text written with its newline as stdout, an empty stderr and
\* truncated = false.
C19_HelloRecordWithNewline ==
    \A r \in live :
        HelloRun(r) =>
            /\ Record(r).status = "success"
            /\ Record(r).exit_code = U32(0, 0)
            /\ Record(r).stdout = <<"x", LF>>
            /\ Record(r).stderr = <<>>
            /\ Record(r).truncated = FALSE

\* C19, amended: the record of such a run has status "success", exit code 0,
\* the text written without its trailing newline as stdout, an empty stderr
\* and truncated = false.
C19_HelloRecordTrimmed ==
    \A r \in live :
        HelloRun(r) =>
            /\ Record(r).status = "success"
            /\ Record(r).exit_code = U32(0, 0)
            /\ Record(r).stdout = <<"x">>
            /\ Record(r).stderr = <<>>
            /\ Record(r).truncated = FALSE

C19_Witness ==
    /\ HelloRun(1)
    /\ pc[1] = "done"
    /\ Record(1).stdout = <<"x">>
    /\ Record(1).status = "success"

----------------------------------------------------------------------------
(* container.rs: remove_container on its own.  The engine holds containers  *)
(* in any state; a caller removes them, several times each if it likes.     *)

remove_container_bad(ok) ==
    IF ok THEN Ok ELSE Err(ErrContainer("Failed to remove container: " \o EngineMsg))

\* lines 202-211: what remove_container returns when the engine's answer to
\* the remove call is ok or an error; the error is logged and dropped
remove_container(ok) ==
    IF ok THEN Ok ELSE Ok

ContainerStates == {"absent", "created", "running", "exited", "removed"}

InitRemove ==
    /\ live = {}
    /\ req = [r \in ReqIds |-> DefaultRequest]
    /\ defaultDebug = FALSE
    /\ output_limit = 1
    /\ InitProgramAt("idle")
    /\ engine \in [ReqIds -> { [NoContainer EXCEPT !.state = st] :
                                 st \in ContainerStates }]
    /\ fn_in = None
    /\ fn_out = <<>>

\* remove_container(c): the engine removes a container it lists, or answers
\* with an error (no such container, container running, engine failure);
\* fn_out keeps the calls with what they returned
RemoveContainer(c) ==
    /\ Len(fn_out) < MaxRemoves
    /\ \E ok \in BOOLEAN :
         /\ ok => Listed(c)
         /\ engine' = [engine EXCEPT ![c] = engine_remove(@, ok)]
         /\ fn_out' = Append(fn_out, [id |-> c, was |-> engine[c].state,
                                      answer |-> ok,
                                      returned |-> remove_container(ok)])
    /\ UNCHANGED <<globals, files, clock, logs, proc, fn_in, pc, temp_dir, container_id,
                   exec_command, locals, ret, ops>>

NextRemove == \E c \in ReqIds : RemoveContainer(c)

SpecRemove == InitRemove /\ [][NextRemove]_vars

\* C20: remove(id) never returns an error to its caller, whatever the engine
\* answers and whatever the state of the container; in particular a second
\* remove of the same container returns without error as the first did.
C20_RemoveNeverFails ==
    \A i \in DOMAIN fn_out : fn_out[i].returned = Ok

\* two removes of one container: the engine removed it at the first call and
\* answered the second with an error
C20_Witness ==
    /\ Len(fn_out) >= 2
    /\ fn_out[1].id = fn_out[2].id
    /\ fn_out[1].answer /\ ~fn_out[2].answer
    /\ fn_out[2].was = "removed"
    /\ fn_out[2].returned = Ok

----------------------------------------------------------------------------
(* container.rs: cleanup_old_containers on the list the engine returns.     *)
(* A listed container is [id, names, created]: names and created are        *)
(* Options, created a time in seconds since the epoch.                      *)

container_prefix == "singleload"

\* line 223
name_matches(name) == starts_with(name, "/" \o container_prefix \o "-")

\* lines 226-228: now - created in u64.  When created is later than now the
\* subtraction overflows: a build with overflow checks panics, a build
\* without them wraps to a value near 2^64, which exceeds any threshold.
age_of(now, created, overflow_checks) ==
    IF created <= now THEN [panic |-> FALSE, wrapped |-> FALSE, secs |-> now - created]
    ELSE IF overflow_checks THEN [panic |-> TRUE, wrapped |-> FALSE, secs |-> 0]
    ELSE [panic |-> FALSE, wrapped |-> TRUE, secs |-> 0]

\* line 230
is_old(age) == age.wrapped \/ age.secs > 3600

\* lines 219-241: the loops over the containers and over their names; todo is
\* the sequence of <<container, name>> still to visit, removes the ids for
\* which remove_container has been called so far
RECURSIVE sweep(_, _, _, _)
sweep(todo, now, overflow_checks, removes) ==
    IF todo = <<>> THEN [panic |-> FALSE, removes |-> removes]
    ELSE LET c == Head(todo)[1]
             name == Head(todo)[2]
             age == age_of(now, c.created[1], overflow_checks)
         IN  IF ~name_matches(name) \/ c.created = None
             THEN sweep(Tail(todo), now, overflow_checks, removes)
             ELSE IF age.panic THEN [panic |-> TRUE, removes |-> removes]
             ELSE IF is_old(age) /\ c.id # None
             THEN sweep(Tail(todo), now, overflow_checks, Append(removes, c.id[1]))
             ELSE sweep(Tail(todo), now, overflow_checks, removes)

\* the <<container, name>> pairs in the order of the two loops
RECURSIVE visits(_)
visits(containers) ==
    IF containers = <<>> THEN <<>>
    ELSE LET c == Head(containers)
         IN  (IF c.names = None THEN <<>>
              ELSE [i \in 1..Len(c.names[1]) |-> <<c, c.names[1][i]>>])
             \o visits(Tail(containers))

cleanup_old_containers(containers, now, overflow_checks) ==
    sweep(visits(containers), now, overflow_checks, <<>>)

NamesSamples ==
    { None, Some(<<"/singleload-a">>), Some(<<"/other-a">>),
      Some(<<"singleload-a">>), Some(<<"/other-a", "/singleload-b">>) }

\* the clock reads 10000: created 3601 s, 3600 s and 0 s before the clock
\* reading, and 1 s after it
CreatedSamples == { None, Some(6399), Some(6400), Some(10000), Some(10001) }

RECURSIVE ListsUpTo(_)
ListsUpTo(n) ==
    IF n = 0 THEN { <<>> }
    ELSE LET S == ListsUpTo(n - 1)
         IN  S \cup { Append(l, [id |-> Some(Len(l) + 1), names |-> ns,
                                 created |-> cr]) :
                        l \in { x \in S : Len(x) = n - 1 },
                        ns \in NamesSamples, cr \in CreatedSamples }

SweepSet ==
    [containers : ListsUpTo(MaxListed), now : {10000},
     overflow_checks : BOOLEAN]

InitSweep == InitStudy(SweepSet)

\* the list call succeeded and returned fn_in.containers
CleanupOldContainers ==
    /\ fn_out = None
    /\ fn_out' = Some(cleanup_old_containers(fn_in.containers, fn_in.now,
                                             fn_in.overflow_checks))
    /\ StudyFrame

SpecSweep == InitSweep /\ [][CleanupOldContainers]_vars

\* a remove was issued for the container with id k
RemoveIssuedFor(k) == \E i \in DOMAIN fn_out[1].removes : fn_out[1].removes[i] = k

\* C21: the sweeper issues a remove for a container iff one of its names
\* begins with "/<prefix>-" and it was created more than 3600 seconds before
\* the clock reading; a container created less than an hour ago, or after
\* the clock reading, is never removed.
C21_RemoveIffPrefixedAndOld ==
    fn_out # None =>
        \A k \in DOMAIN fn_in.containers :
            LET c == fn_in.containers[k]
                prefixed == c.names # None /\
                            \E i \in DOMAIN c.names[1] :
                                starts_with(c.names[1][i], "/singleload-")
                old == c.created # None /\ fn_in.now - c.created[1] > 3600
            IN  RemoveIssuedFor(k) <=> (prefixed /\ old)

----------------------------------------------------------------------------
(* container.rs: cleanup_old_containers run beside a live request *)

MaxSeconds == 2
MaxHours == 1

TimeoutSamples == { 1, 3600 }

\* one live request with the defaults of the run command and a timeout from
\* the two ends of the accepted range
InitLive ==
    /\ live = {1}
    /\ \E k \in BOOLEAN, t \in TimeoutSamples :
         req = [r \in ReqIds |->
                  [language |-> "Python", script |-> GoodScript,
                   keep_container |-> IF r \in live THEN k ELSE FALSE,
                   opts |-> [DefaultOpts EXCEPT
                               !.timeout = IF r \in live THEN t ELSE @]]]
    /\ defaultDebug \in BOOLEAN
    /\ output_limit = 1
    /\ InitRun
    /\ fn_in = None
    /\ fn_out = None

\* executor.rs line 152 and container.rs wait_container: the deadline of the
\* wait, timeout seconds after the wait began
deadline(r) == engine[Cid(r)].started[1] + timeout_of(r)

\* the timer of the wait fires no earlier than its deadline
TimedWaitTimeout(r) ==
    /\ pc[r] = "wait"
    /\ engine[Cid(r)].started # None
    /\ clock >= deadline(r)
    /\ WaitTimeout(r)

\* a second passes; a pending wait does not outlive its deadline
TickSecond ==
    /\ clock % 3600 < MaxSeconds
    /\ \A r \in live : pc[r] = "wait" => clock + 1 <= deadline(r)
    /\ clock' = clock + 1
    /\ UNCHANGED <<globals, files, outer, logs, pc, temp_dir, container_id, engine,
                   exec_command, locals, ret, ops>>

\* an hour passes while the script of every live request is running
TickHour ==
    /\ clock \div 3600 < MaxHours
    /\ \A r \in live : /\ pc[r] = "wait"
                         /\ engine[Cid(r)].state = "running"
                         /\ clock + 3600 <= deadline(r)
    /\ clock' = clock + 3600
    /\ UNCHANGED <<globals, files, outer, logs, pc, temp_dir, container_id, engine,
                   exec_command, locals, ret, ops>>

\* line 214-218: the answer of the list call with all(true), in id order
RECURSIVE list_containers(_, _)
list_containers(e, ids) ==
    IF ids = {} THEN <<>>
    ELSE LET c == CHOOSE x \in ids : \A y \in ids : x <= y
             rest == list_containers(e, ids \ {c})
         IN  IF e[c].state \in {"created", "running", "exited"}
             THEN << [id |-> Some(c),
                      names |-> Some(<< "/" \o e[c].spec[1].name[1] >>),
                      created |-> e[c].created] >> \o rest
             ELSE rest

\* the ids cleanup_old_containers calls remove_container for at time t
sweep_candidates(e, t) ==
    LET out == cleanup_old_containers(list_containers(e, DOMAIN e), t, TRUE)
    IN  { out.removes[i] : i \in DOMAIN out.removes }

\* the engine after one run: each remove is accepted or refused, and a
\* refusal is logged and dropped (remove_container, lines 202-211)
sweep_outcomes(e, t) ==
    { [c \in DOMAIN e |-> IF c \in acc THEN engine_remove(e[c], TRUE) ELSE e[c]] :
        acc \in SUBSET sweep_candidates(e, t) }

ListedIn(e) == { c \in DOMAIN e : e[c].state \in {"created", "running", "exited"} }

\* the containers of the requests that have not returned
Pending == { Cid(r) : r \in { x \in live : container_id[x] # None /\ ~Returned(x) } }

\* one run of cleanup_old_containers; fn_out keeps what it removed and which
\* containers belonged to a request still in run_script
ReapStale ==
    /\ \E e \in sweep_outcomes(engine, clock) :
         /\ engine' = e
         /\ fn_out' = Some([removed |-> ListedIn(engine) \ ListedIn(e),
                            pending |-> Pending])
    /\ UNCHANGED <<globals, files, clock, logs, proc, fn_in, pc, temp_dir, container_id,
                   exec_command, locals, ret, ops>>

NextLive ==
    \/ \E r \in ReqIds :
         \/ ValidatePath(r)
         \/ ReadScript(r)
         \/ ValidateContent(r)
         \/ CreateTempDir(r)
         \/ WriteScript(r)
         \/ CreateContainer(r)
         \/ StartContainer(r)
         \/ WaitExit(r)
         \/ WaitError(r)
         \/ TimedWaitTimeout(r)
         \/ WaitFailed(r)
         \/ GetLogs(r)
         \/ ApplyLimits(r)
         \/ ExecCleanup(r)
         \/ DropTempDir(r)
         \/ MatchOk(r)
         \/ MatchErr(r)
    \/ \E c \in ReqIds :
         \/ EngineExit(c)
         \/ EngineAutoRemove(c)
    \/ TickSecond
    \/ TickHour
    \/ ReapStale

SpecLive == InitLive /\ [][NextLive]_vars

\* no run of the sweeper removed the container of a request that was still
\* inside run_script
C22_LiveContainerNotSwept ==
    fn_out # None => fn_out[1].removed \cap fn_out[1].pending = {}

\* a second run right after a first one changes nothing: whatever the first
\* run leaves, the second run leaves the same list
C22_SweepIdempotent ==
    \A e1 \in sweep_outcomes(engine, clock) :
        \A e2 \in sweep_outcomes(e1, clock) : ListedIn(e2) = ListedIn(e1)

\* C22: the sweeper may run at any point beside a live request, whose timeout
\* is anywhere in 1..3600 seconds, without removing the container of a
\* request that has not yet returned, and running it twice in a row leaves
\* the engine's container list as after running it once.
C22_SweepSafeAndIdempotent ==
    /\ C22_LiveContainerNotSwept
    /\ C22_SweepIdempotent

----------------------------------------------------------------------------
(* executor.rs: two run_script calls on one executor and one driver *)

PairRequestSet ==
    [language : {"Python"}, script : {GoodScript}, keep_container : BOOLEAN]

\* two requests are in flight; the scripts are the same file
InitPair ==
    /\ live = {1, 2}
    /\ req \in [ReqIds -> PairRequestSet]
    /\ defaultDebug = FALSE
    /\ output_limit = 1
    /\ InitRun
    /\ fn_in = None
    /\ fn_out = None

\* get_container_logs for a script that prints nothing
SilentLogs(r) == GetLogs(r) /\ logs'[r] = <<>>

NextPair ==
    \/ \E r \in ReqIds :
         \/ ValidatePath(r)
         \/ ReadScript(r)
         \/ ValidateContent(r)
         \/ CreateTempDir(r)
         \/ WriteScript(r)
         \/ CreateContainer(r)
         \/ StartContainer(r)
         \/ WaitExit(r)
         \/ WaitError(r)
         \/ WaitTimeout(r)
         \/ WaitFailed(r)
         \/ SilentLogs(r)
         \/ ApplyLimits(r)
         \/ ExecCleanup(r)
         \/ DropTempDir(r)
         \/ MatchOk(r)
         \/ MatchErr(r)
    \/ \E c \in ReqIds :
         \/ EngineExit(c)
         \/ EngineAutoRemove(c)

SpecPair == InitPair /\ [][NextPair]_vars

\* both runs have sent their container specification, and their inputs
\* (language, script, limits, debug flag) are the same
SameInputsBothCreated ==
    /\ req[1] = req[2]
    /\ Created(1) /\ Created(2)

WithPathsOf(s, t) ==
    [s EXCEPT !.name = t.name,
              !.mounts = Some([s.mounts[1] EXCEPT ![1].source = t.mounts[1][1].source]),
              !.security_opt = Some([s.security_opt[1] EXCEPT ![2] = t.security_opt[1][2]])]

----------------------------------------------------------------------------
(* types.rs: ExecutionResult, Serialize and Deserialize *)

\* a JSON object is a sequence of members <<key, value>>; a value keeps its
\* JSON type
JsonString(v) == [t |-> "string", v |-> v]
JsonNumber(v) == [t |-> "number", v |-> v]
JsonBool(v) == [t |-> "bool", v |-> v]

\* derive(Serialize): the fields in declaration order; lines 71 and 73 skip
\* error when it is None and truncated when it is false
to_json(rec) ==
    << <<"status", JsonString(rec.status)>>,
       <<"exit_code", JsonNumber(rec.exit_code)>>,
       <<"stdout", JsonString(rec.stdout)>>,
       <<"stderr", JsonString(rec.stderr)>>,
       <<"duration_ms", JsonNumber(rec.duration_ms)>> >>
    \o (IF rec.error = None THEN <<>>
        ELSE << <<"error", JsonString(rec.error[1])>> >>)
    \o (IF ~rec.truncated THEN <<>>
        ELSE << <<"truncated", JsonBool(rec.truncated)>> >>)

HasMember(obj, key) == \E i \in DOMAIN obj : obj[i][1] = key
Member(obj, key) == obj[CHOOSE i \in DOMAIN obj : obj[i][1] = key][2]

RequiredFields ==
    << <<"status", "string">>, <<"exit_code", "number">>, <<"stdout", "string">>,
       <<"stderr", "string">>, <<"duration_ms", "number">>, <<"truncated", "bool">> >>

ParseOk(rec) == [kind |-> "Ok", value |-> rec, error |-> ""]
ParseErr(msg) == [kind |-> "Err", value |-> None, error |-> msg]

\* derive(Deserialize): a field that is not an Option and has no default
\* attribute must be present; a missing Option field reads as None
from_json(obj) ==
    LET missing == { i \in DOMAIN RequiredFields : ~HasMember(obj, RequiredFields[i][1]) }
        mistyped == { i \in DOMAIN RequiredFields \ missing :
                        Member(obj, RequiredFields[i][1]).t # RequiredFields[i][2] }
        first(S) == CHOOSE i \in S : \A j \in S : i <= j
    IN  IF missing # {}
        THEN ParseErr("missing field " \o RequiredFields[first(missing)][1])
        ELSE IF mistyped # {} \/ (HasMember(obj, "error") /\ Member(obj, "error").t # "string")
        THEN ParseErr("invalid type")
        ELSE ParseOk([status      |-> Member(obj, "status").v,
                      exit_code   |-> Member(obj, "exit_code").v,
                      stdout      |-> Member(obj, "stdout").v,
                      stderr      |-> Member(obj, "stderr").v,
                      duration_ms |-> Member(obj, "duration_ms").v,
                      error       |-> IF HasMember(obj, "error")
                                      THEN Some(Member(obj, "error").v) ELSE None,
                      truncated   |-> Member(obj, "truncated").v])

RecordSamples ==
    [status : {"success", "failed", "error"}, exit_code : {0, 1, 137},
     stdout : {"", "hello"}, stderr : {"", "oops"}, duration_ms : {0, 42},
     error : {None, Some("Execution timeout")}, truncated : BOOLEAN]

InitJson == InitStudy(RecordSamples)

\* serde_json::to_string followed by serde_json::from_str
RoundTrip ==
    /\ fn_out = None
    /\ fn_out' = Some(from_json(to_json(fn_in)))
    /\ StudyFrame

SpecJson == InitJson /\ [][RoundTrip]_vars

\* C24: serializing an execution record to JSON, without the error key when
\* error is absent and without the truncated key when truncated is false, and
\* parsing the result back succeeds and yields a record equal to the
\* original in all seven fields.
C24_RoundTrip ==
    fn_out # None => fn_out[1] = ParseOk(fn_in)

----------------------------------------------------------------------------
(* main.rs: the run command after run_script was called *)

\* main reached line 193: the arguments passed and the base image was found
RunCalled(r) == IssuedWith(r, "image_inspect", TRUE)

Exited(r) == pc[r] = "exited"

\* run_script reports an error either as Err or as a record whose status is
\* "error" (executor.rs, the Err arm after execute_in_container)
ReportsError(r) ==
    \/ ret[r].kind = "Err"
    \/ ret[r].kind = "Ok" /\ Record(r).status = "error"

\* the status follows the result of run_script
ExitCodeFollowsResult(r) ==
    IF ReportsError(r) THEN proc[r].exit = Some(1)
    ELSE proc[r].exit = Some(wait_code[r])

\* C25: for the run command the record is always emitted before the process
\* exits, and the exit code is 1 when the executor reports an error and
\* otherwise equals the container's exit code.
C25_RecordEmittedAndExitCode ==
    \A r \in live :
        RunCalled(r) /\ Exited(r) =>
            /\ proc[r].printed # None
            /\ ret[r].kind # "None"
            /\ ExitCodeFollowsResult(r)

\* the same, for the runs in which run_script returned
C25_ReturnedRunsEmit ==
    \A r \in live :
        RunCalled(r) /\ Exited(r) /\ ret[r].kind # "None" =>
            /\ proc[r].printed # None
            /\ ExitCodeFollowsResult(r)

----------------------------------------------------------------------------
(* main.rs and executor.rs: the base image precondition *)

BaseImageMessage == "Base image not found"

\* the value run_script returned is an error whose message has the text
ErrorResultWith(r, text) ==
    \/ ret[r].kind = "Err" /\ Contains(ret[r].error[1], text)
    \/ /\ ret[r].kind = "Ok"
       /\ Record(r).status = "error"
       /\ Contains(Record(r).error[1], text)

\* C26: the base image precondition is checked by run_script itself on every
\* invocation, and when the image is absent the run yields an error result
\* with status "error" whose message contains "Base image not found", no
\* image build is started and no container is created.
C26_RunChecksBaseImage ==
    \A r \in live :
        Returned(r) =>
            /\ Issued(r, "image_inspect")
            /\ IssuedWith(r, "image_inspect", FALSE) =>
                   /\ ErrorResultWith(r, BaseImageMessage)
                   /\ ~Issued(r, "build")
                   /\ ~Issued(r, "create")

\* the run command: when main finds the base image absent it prints the
\* error object, exits with status 1, and run_script is never called
C26_CliStopsBeforeRun ==
    \A r \in live :
        Exited(r) /\ IssuedWith(r, "image_inspect", FALSE) =>
            /\ proc[r].exit = Some(1)
            /\ proc[r].printed # None =>
                   /\ proc[r].printed[1].status = "error"
                   /\ Contains(proc[r].printed[1].error, BaseImageMessage)
            /\ ret[r].kind = "None"
            /\ \A i \in DOMAIN ops[r] : ops[r][i].op \in {"ping", "image_inspect"}

----------------------------------------------------------------------------
(* executor.rs: where the container id lives *)

\* line 115: the id is a local of run_script, and the Executor has no field
\* for it (lines 10-17); it is held while the call is on the stack
HoldsId(r) ==
    /\ container_id[r] # None
    /\ pc[r] \notin {"done", "panicked", "exited"}

\* C27: from the moment create returned a container id until a remove call
\* for that id has returned, the executor holds the id, on every path.
C27_IdHeldUntilRemoveReturned ==
    \A r \in live :
        Created(r) /\ ~Issued(r, "remove") => HoldsId(r)

----------------------------------------------------------------------------
(* executor.rs and container.rs: debug retention *)

\* the specification sent for request r has these two fields
RootAndAutoRemove(r, read_only, remove) ==
    /\ SentSpec(r).read_only_filesystem = Some(read_only)
    /\ SentSpec(r).remove = Some(remove)

\* C28: when debug retention is requested the container specification has
\* read-only root = false and auto-remove = false and no remove call is
\* issued for the container on any path; when it is not requested,
\* read-only root = true and auto-remove = true.
C28_RetentionSetsRootAndAutoRemove ==
    \A r \in live :
        Created(r) =>
            IF Keep(r)
            THEN RootAndAutoRemove(r, FALSE, FALSE) /\ ~Issued(r, "remove")
            ELSE RootAndAutoRemove(r, TRUE, TRUE)

\* the part about the root filesystem and the remove calls alone
C28_RetentionSetsRootNoRemove ==
    \A r \in live :
        Created(r) =>
            /\ SentSpec(r).read_only_filesystem = Some(~Keep(r))
            /\ Keep(r) => ~Issued(r, "remove")

\* auto-remove is the same for a retained and an unretained container
C28_AutoRemoveIgnoresFlag ==
    \A r \in live :
        Created(r) => SentSpec(r).remove = Some(~defaultDebug)

----------------------------------------------------------------------------
(* executor.rs: the order of the engine operations of one request *)

\* the engine operations run_script issues; the stop request is part of the
\* driver's wait (container.rs, wait_container)
RunOps == {"create", "start", "wait", "wait_timeout", "stop", "logs", "remove"}

Rank(op) ==
    CASE op = "create" -> 1
      [] op = "start" -> 2
      [] op \in {"wait", "wait_timeout", "stop"} -> 3
      [] op = "logs" -> 4
      [] op = "remove" -> 5

\* the engine operations of r so far are in the order create, start, wait,
\* fetch logs, remove
InOrder(r) ==
    \A i, j \in DOMAIN ops[r] :
        i < j /\ ops[r][i].op \in RunOps /\ ops[r][j].op \in RunOps =>
            Rank(ops[r][i].op) <= Rank(ops[r][j].op)

\* an operation op was issued after an operation before that answered ok
Follows(r, op, before) ==
    \A j \in DOMAIN ops[r] :
        ops[r][j].op = op =>
            \E i \in 1..(j - 1) : ops[r][i] = Call(before, TRUE)

\* run_script is over, by a return or by unwinding
Terminal(r) == pc[r] \in {"done", "panicked"}

\* it ended on an error edge
EndedInError(r) ==
    \/ pc[r] = "panicked"
    \/ pc[r] = "done" /\ ReportsError(r)

\* the compensator has run: the container, if one exists and is not
\* retained, had a remove call, and the workspace is deleted
Compensated(r) ==
    /\ Created(r) /\ ~Keep(r) => Issued(r, "remove")
    /\ temp_dir[r] \notin {"dir", "script"}

\* C29: for one request the engine operations occur only in the order
\* validate, create, start, wait, fetch logs, remove: no create before both
\* validations succeed, start only after a successful create, logs only
\* after wait returned an exit code, and every error edge reaches the
\* terminal state through container removal (when a container exists and is
\* not retained) and workspace cleanup, with no engine operation after it.
C29_OrderAndCompensation ==
    \A r \in live :
        /\ InOrder(r)
        /\ Issued(r, "create") => ~Rejected(r)
        /\ Follows(r, "start", "create")
        /\ Follows(r, "logs", "wait")
        /\ Terminal(r) /\ EndedInError(r) => Compensated(r)

\* the same for the runs that do not unwind from a panic
C29_OrderAndCompensationOnReturn ==
    \A r \in live :
        /\ InOrder(r)
        /\ Issued(r, "create") => ~Rejected(r)
        /\ Follows(r, "start", "create")
        /\ Follows(r, "logs", "wait")
        /\ Returned(r) /\ ReportsError(r) => Compensated(r)

----------------------------------------------------------------------------
(* executor.rs: requests running side by side *)

WorkspaceOf(r) == SentSpec(r).mounts[1][1].source

\* two requests that both have a container have different workspaces,
\* container names and container ids
Distinct ==
    \A r, q \in live :
        r # q /\ Created(r) /\ Created(q) =>
            /\ WorkspaceOf(r) # WorkspaceOf(q)
            /\ SentSpec(r).name # SentSpec(q).name
            /\ Cid(r) # Cid(q)

\* a step in which request r issues a call changes no container but the one
\* of r, and no workspace but the one of r
OwnStep(r) ==
    ops'[r] # ops[r] =>
        /\ \A c \in ReqIds :
               engine'[c] # engine[c] => container_id'[r] = Some(c)
        /\ \A q \in ReqIds \ {r} : temp_dir'[q] = temp_dir[q]

\* C30: for any interleaving of run calls on one shared executor and driver,
\* each request has its own workspace directory, container name and
\* container id, and the start, wait, logs, stop and remove calls of a
\* request act only on that request's container, so the cleanup or timeout
\* of one request never deletes the workspace or stops or removes the
\* container of another.
C30_RequestsDoNotInterfere ==
    [][Distinct' /\ \A r \in live : OwnStep(r)]_vars

\* request 1 timed out, its container was stopped and removed and its
\* workspace deleted, while the container of request 2 is still running
C30_Witness ==
    /\ Returned(1)
    /\ IssuedWith(1, "stop", TRUE)
    /\ IssuedWith(1, "remove", TRUE)
    /\ temp_dir[1] = "deleted"
    /\ Created(2)
    /\ engine[Cid(2)].state = "running"
    /\ temp_dir[2] = "script"

----------------------------------------------------------------------------
(* types.rs: the language table *)

\* the extension and the command stated for each language tag
StatedTable ==
    [l \in Languages |->
       CASE l = "Python"     -> <<".py", "python3">>
         [] l = "Javascript" -> <<".js", "node">>
         [] l = "Php"        -> <<".php", "php">>
         [] l = "Go"         -> <<".go", "go">>
         [] l = "Rust"       -> <<".rs", "rustc">>
         [] l = "Bash"       -> <<".sh", "bash">>
         [] l = "DotNet"     -> <<".cs", "dotnet">>]

\* C31: file_extension and command are total on the seven language tags with
\* the stated results, the extensions are pairwise distinct and each is in
\* the default allow-list, and the script in the workspace is named
\* script<file_extension>.
C31_LanguageTable ==
    /\ Cardinality(Languages) = 7
    /\ \A l \in Languages :
          /\ file_extension(l) = StatedTable[l][1]
          /\ command(l) = StatedTable[l][2]
          /\ file_extension(l) \in allowed_extensions
    /\ \A l1, l2 \in Languages :
          l1 # l2 => file_extension(l1) # file_extension(l2)
    /\ \A r \in live :
          written[r] # None =>
              written[r][1].name = "script" \o StatedTable[req[r].language][1]

C31_Witness ==
    \E r \in live :
        /\ req[r].language = "DotNet"
        /\ temp_dir[r] = "script"
        /\ written[r] # None
        /\ written[r][1].name = "script.cs"

----------------------------------------------------------------------------
(* executor.rs: the script file changes while run_script is running *)

\* another process replaces, rewrites or deletes the file at the script path
ReplaceSource(r) ==
    /\ r \in live
    /\ pc[r] \notin {"idle", "done", "panicked"}
    /\ \E f \in ScriptSamples :
         /\ f # disk[r]
         /\ disk' = [disk EXCEPT ![r] = f]
    /\ UNCHANGED <<globals, script_content, written, clock, outer, logs, pc, temp_dir,
                   container_id, engine, exec_command, locals, ret, ops>>

\* one request for a Python script, with the default cap
InitRace ==
    /\ live = {1}
    /\ \E f \in ScriptSamples :
         req = [r \in ReqIds |->
                  [DefaultRequest EXCEPT !.script = IF r \in live THEN f ELSE @]]
    /\ defaultDebug = FALSE
    /\ output_limit = 1
    /\ InitRun
    /\ fn_in = None
    /\ fn_out = None

NextRace ==
    \/ Next
    \/ \E r \in ReqIds : ReplaceSource(r)

SpecRace == InitRace /\ [][NextRace]_vars

\* the files in the workspace of request r
Workspace(r) ==
    IF temp_dir[r] = "script" /\ written[r] # None THEN { written[r][1] } ELSE {}

\* C32: the workspace mounted into the container holds exactly one file,
\* script<ext>, whose bytes passed validation: no zero byte and a total
\* size of at most 10 MiB, even when another process modifies or replaces
\* the source file between the path validation and the read.
C32_WorkspaceHoldsValidatedBytes ==
    \A r \in live :
        Created(r) /\ temp_dir[r] = "script" =>
            /\ Cardinality(Workspace(r)) = 1
            /\ \A f \in Workspace(r) :
                  /\ f.name = container_script_name(req[r].language)
                  /\ \A i \in DOMAIN f.bytes.content : f.bytes.content[i] # 0
                  /\ f.bytes.size <= MAX_SCRIPT_SIZE

\* the same without the bound on the size: the bytes written are the bytes
\* validate_script_content accepted
C32_WorkspaceHoldsCheckedContent ==
    \A r \in live :
        Created(r) /\ temp_dir[r] = "script" =>
            /\ Cardinality(Workspace(r)) = 1
            /\ \A f \in Workspace(r) :
                  /\ f.name = container_script_name(req[r].language)
                  /\ f.bytes = script_content[r][1]
                  /\ validate_script_content(f.bytes.content).ok

----------------------------------------------------------------------------
(* executor.rs: container removal and the deletion of the workspace *)

\* every deletion of the workspace of r comes after a remove call
RemoveBeforeDrop(r) ==
    \A j \in DOMAIN ops[r] :
        ops[r][j].op = "drop_temp_dir" =>
            \E i \in 1..(j - 1) : ops[r][i].op = "remove"

\* C33: on every path where a container was created and is not
\* debug-retained (success, start failure, wait error, timeout, log-fetch
\* failure), the first removal attempt for the container happens before the
\* workspace directory that is bind-mounted into it is deleted.
C33_RemoveBeforeWorkspaceDelete ==
    \A r \in live :
        Created(r) /\ ~Keep(r) => RemoveBeforeDrop(r)

\* the same on the paths through the remove calls of execute_in_container:
\* success, wait error and timeout
C33_RemoveFirstAfterWait ==
    \A r \in live :
        /\ Created(r) /\ ~Keep(r) /\ pc[r] # "panicked"
        /\ IssuedWith(r, "start", TRUE)
        /\ ~IssuedWith(r, "logs", FALSE)
        => RemoveBeforeDrop(r)

\* and on the two other paths the workspace is deleted first
C33_DropFirstOnEarlyError ==
    \A r \in live :
        /\ Returned(r) /\ Created(r) /\ ~Keep(r)
        /\ IssuedWith(r, "start", FALSE) \/ IssuedWith(r, "logs", FALSE)
        => /\ ~RemoveBeforeDrop(r)
           /\ Issued(r, "remove")

----------------------------------------------------------------------------
(* executor.rs: apply_output_limits on the harvested streams *)

\* C34: apply_output_limits returns a result for every pair of harvested
\* streams and every cap: when the cap falls inside a multi-byte character
\* the call still returns a truncated stream and the request is not
\* aborted.
C34_LimitsAlwaysReturn ==
    \A r \in live :
        /\ pc[r] = "limits" =>
              ~apply_output_limits(harvested[r][1], harvested[r][2],
                                   output_limit).panic
        /\ pc[r] # "panicked"

----------------------------------------------------------------------------
(* container.rs and executor.rs: auto-remove and the log fetch *)

\* wait returned the exit code of r's container and the logs call is next
AboutToFetchLogs(r) ==
    /\ pc[r] = "logs"
    /\ IssuedWith(r, "wait", TRUE)

\* C35: in a non-debug run whose container exits before the timeout, the
\* container still exists in the engine when the executor fetches its logs
\* after wait has returned the exit code; the auto-remove setting never lets
\* the engine delete it between its exit and the log fetch.
C35_ContainerListedAtLogFetch ==
    \A r \in live :
        ~Keep(r) /\ AboutToFetchLogs(r) => Listed(Cid(r))

\* with auto-remove off the container is there at the log fetch
C35_ListedWithoutAutoRemove ==
    \A r \in live :
        AboutToFetchLogs(r) /\ SentSpec(r).remove = Some(FALSE) => Listed(Cid(r))

----------------------------------------------------------------------------
(* executor.rs: run_script comes to an end *)

\* the next step of run_script for request r, whichever it is
RunStep(r) ==
    \/ ValidatePath(r)
    \/ ReadScript(r)
    \/ ValidateContent(r)
    \/ CreateTempDir(r)
    \/ WriteScript(r)
    \/ CreateContainer(r)
    \/ StartContainer(r)
    \/ WaitExit(r)
    \/ WaitError(r)
    \/ WaitTimeout(r)
    \/ WaitFailed(r)
    \/ GetLogs(r)
    \/ ApplyLimits(r)
    \/ ExecCleanup(r)
    \/ DropTempDir(r)
    \/ MatchOk(r)
    \/ MatchErr(r)

\* the task of a request keeps being polled: the file system calls and every
\* engine call other than wait answer, and the timer of the wait fires when
\* the container has not exited
SpecFair == Spec /\ \A r \in ReqIds : WF_vars(RunStep(r))

\* C36: every call to run eventually returns, provided every engine call
\* other than wait eventually returns; the wait ends by the timeout even if
\* the container never exits, and no path loops or retries.
C36_RunEventuallyReturns ==
    <>(\A r \in live : Returned(r))

\* every call comes to an end, by a return or by the unwinding of a panic
C36_RunEventuallyEnds ==
    <>(\A r \in live : Terminal(r))

\* a pending wait ends without an answer from the engine's wait call being
\* an error: the container has exited, or it is running and the timer fires
C36_WaitCanEnd ==
    \A r \in live :
        pc[r] = "wait" => ENABLED (WaitExit(r) \/ WaitTimeout(r))

====
